---- MODULE Spec2Model ----
(***************************************************************************)
(* httpcl execution engine: Orchestrator.Run, worker, runPipelineSlot, the *)
(* preflight checks and the counters of the statistics Collector.          *)
(*                                                                         *)
(* One benchmark session is modelled as a set of concurrently scheduled    *)
(* goroutines: Run itself, the renderer loop, the interrupt watcher, one   *)
(* goroutine per worker and one per pipeline slot, plus the environment    *)
(* (the context's timer, the user's interrupt, the server's answers).      *)
(***************************************************************************)
EXTENDS Integers, FiniteSets, Sequences, TLC

(***************************************************************************)
(* Bounds of the model.                                                    *)
(***************************************************************************)
\* largest number of pipeline slots (Workers x Pipeline) of a configuration
MaxSlots == 2
\* requests the slots of one run may issue altogether
MaxRequests == 2
\* a positive connection count a caller may configure
SomeConns == 2
\* a positive duration a caller may configure (seconds)
SomeDuration == 1
\* soft RLIMIT_NOFILE of the process (environment)
RlimitCur == 4
\* largest status code a server answers with
MaxStatus == 599
\* Record calls the goroutines make altogether
MaxCalls == 2
\* seconds the clock of the stand-alone Collector runs
MaxTicks == 2
\* largest byte count of one Record call
SomeBytes == 2
\* capacity of the latency sample buffer (50000 in the source, scaled down)
maxLatencySamples == 5
\* capacity of each bucket series (600 in the source, scaled down)
maxBucketSamples == 1

(***************************************************************************)
(* Program constants.                                                      *)
(***************************************************************************)
\* runtime.NumCPU() of the machine
NumCPU == 2
\* cfg.Connections default: Workers * 10
ConnsPerWorker == 10
\* cfg.Duration default: 10 * time.Second
DefaultDuration == 10
\* time.Second, in ticks of the Collector's clock
Second == 1

VARIABLES
    cfg,            \* o.cfg, the configuration NewOrchestrator stored
    runPc,          \* position of Orchestrator.Run
    runErr,         \* the value Run returned ("none" while running, "nil" for no error)
    dnsLookups,     \* net.LookupHost calls made
    ulimitWarned,   \* a "warning: ..." line was printed to stderr
    ctx,            \* "absent" | "active" | "Canceled" | "DeadlineExceeded" (ctx.Err())
    timerFired,     \* the timer context.WithTimeout armed has fired
    durationDone,   \* the durationDone channel the slots select on is closed
                    \* (no statement of Run makes or closes one: it stays open)
    cancelCalls,    \* who has called cancel(): "watcher", "orchestrator", "defer"
    sigNotify,      \* signal.Notify(sigCh, SIGINT, SIGTERM) is in force
    sigCh,          \* number of signals buffered in sigCh (capacity 1)
    interrupted,    \* a SIGINT/SIGTERM was delivered during the run
    collector,      \* the Collector: created flag and atomic counters
    clientCreated,  \* newHTTPClient was called
    rendererPc,     \* position of the renderer goroutine
    finalSnap,      \* the snapshot handed to renderer.RenderFinal
    doneRendering,  \* the doneRendering channel is closed
    watcherPc,      \* position of the interrupt watcher goroutine
    workerPc,       \* position of each worker goroutine
    slotPc,         \* position of each pipeline slot goroutine
    slotRes,        \* outcome of the request a slot is about to record
    issued,         \* client.Do calls made so far by all slots
    server,         \* how the target answers: "any", "always404" or "always500"
    slotReq,        \* req of each slot, the request built before its loop
    sentReq         \* the request of each slot that client.Do is sending

\* a stand-alone Collector with the goroutines that call Record and Snapshot
VARIABLES
    col,            \* the fields of the Collector
    mu,             \* c.mu: "free", or the goroutine that holds it
    now,            \* time.Now(), in seconds since NewCollector
    recPc,          \* position of each goroutine calling Record
    recArgs,        \* the arguments of the Record call of each goroutine
    calls,          \* what the Record calls the goroutines have made add up to
    snapPc,         \* position of each goroutine calling Snapshot
    snapLoc,        \* the local variables of each Snapshot call
    snap            \* the Snapshot each goroutine was last returned

statsVars == <<col, mu, now, recPc, recArgs, calls, snapPc, snapLoc, snap>>

vars == <<cfg, runPc, runErr, dnsLookups, ulimitWarned, ctx, timerFired,
          durationDone, cancelCalls, sigNotify, sigCh, interrupted, collector,
          clientCreated, rendererPc, finalSnap, doneRendering,
          watcherPc, workerPc, slotPc, slotRes, issued, server, slotReq, sentReq,
          statsVars>>

(***************************************************************************)
(* Configuration.                                                          *)
(***************************************************************************)
URLs == {"", "://no-scheme", "http://", "http://nonexistent.invalid/", "http://localhost/"}

Methods == {"", "GET", "BAD METHOD"}

\* request bodies: none, or some bytes
SomeBody == <<104, 105>>
Bodies == {<<>>, SomeBody}

\* the Config values a caller may hand to NewOrchestrator
Config == [URL : URLs, Method : Methods, Workers : 0..MaxSlots, Pipeline : 0..MaxSlots,
           Connections : {0, SomeConns}, Duration : {0, SomeDuration}, Body : Bodies]

\* a configuration that passes preflight and runs one slot
BaseConfig == [URL |-> "http://localhost/", Method |-> "GET", Workers |-> 1, Pipeline |-> 1,
               Connections |-> SomeConns, Duration |-> SomeDuration, Body |-> <<>>]

\* the configurations of the model: every configuration that fails before the
\* run starts, and BaseConfig with one setting other than the body changed
RunConfigs ==
    {c \in Config :
        \/ c.URL # BaseConfig.URL
        \/ /\ c.Body = BaseConfig.Body
           /\ Cardinality({g \in {{"Method"}, {"Workers", "Pipeline"}, {"Connections"}, {"Duration"}} :
                              \E f \in g : c[f] # BaseConfig[f]}) <= 1}

\* a faulty constructor that sets the connections before the workers
NewOrchestrator_ConnectionsFirst(c) ==
    [URL         |-> c.URL,
     Method      |-> IF c.Method = "" THEN "GET" ELSE c.Method,
     Workers     |-> IF c.Workers <= 0 THEN NumCPU ELSE c.Workers,
     Pipeline    |-> IF c.Pipeline <= 0 THEN 1 ELSE c.Pipeline,
     Connections |-> IF c.Connections <= 0 THEN c.Workers * ConnsPerWorker ELSE c.Connections,
     Duration    |-> IF c.Duration <= 0 THEN DefaultDuration ELSE c.Duration,
     Body        |-> c.Body]

NewOrchestrator(c) ==
    LET workers == IF c.Workers <= 0 THEN NumCPU ELSE c.Workers
        conns   == IF c.Connections <= 0 THEN workers * ConnsPerWorker ELSE c.Connections
    IN  [URL         |-> c.URL,
         Method      |-> IF c.Method = "" THEN "GET" ELSE c.Method,
         Workers     |-> workers,
         Pipeline    |-> IF c.Pipeline <= 0 THEN 1 ELSE c.Pipeline,
         Connections |-> conns,
         Duration    |-> IF c.Duration <= 0 THEN DefaultDuration ELSE c.Duration,
         Body        |-> c.Body]

WorkerIds == 1..MaxSlots
SlotIds == (1..MaxSlots) \X (1..MaxSlots)

\* worker(): pipeline := cfg.Pipeline; if pipeline <= 0 { pipeline = 1 }
pipeline == IF cfg.Pipeline <= 0 THEN 1 ELSE cfg.Pipeline

Workers == 1..cfg.Workers
SlotsOf(w) == {w} \X (1..pipeline)
Slots == UNION {SlotsOf(w) : w \in Workers}

(***************************************************************************)
(* Preflight (pkg/netutil).                                                *)
(***************************************************************************)
\* url.Parse fails
ParseFails(u) == u = "://no-scheme"

\* parsed.Hostname()
Hostname(u) ==
    CASE u = "http://nonexistent.invalid/" -> "nonexistent.invalid"
      [] u = "http://localhost/" -> "localhost"
      [] OTHER -> ""

\* net.LookupHost succeeds
Resolves(h) == h = "localhost"

\* PreflightDNS: the error returned ("nil" for none) and the lookups it made
PreflightDNS(u) ==
    IF ParseFails(u) THEN [err |-> "invalid url", lookups |-> 0]
    ELSE IF Hostname(u) = "" THEN [err |-> "missing host in url", lookups |-> 0]
    ELSE IF ~Resolves(Hostname(u)) THEN [err |-> "dns resolution failed", lookups |-> 1]
    ELSE [err |-> "nil", lookups |-> 1]

\* CheckUlimitWarning: getrlimitOk is whether syscall.Getrlimit succeeded
CheckUlimitWarning(requestedConns, getrlimitOk) ==
    IF requestedConns <= 0 THEN "nil"
    ELSE IF ~getrlimitOk THEN "nil"
    ELSE IF requestedConns > RlimitCur THEN "requested connections exceed soft open-files limit"
    ELSE "nil"

\* http.NewRequestWithContext fails (the URL has already passed url.Parse)
NewRequestFails(method) == method = "BAD METHOD"

(***************************************************************************)
(* Collector (internal/stats): counters.                                   *)
(***************************************************************************)
NewCollector ==
    [created |-> TRUE, totalRequests |-> 0, successes |-> 0, errors |-> 0,
     totalBytesSent |-> 0]

NoCollector ==
    [created |-> FALSE, totalRequests |-> 0, successes |-> 0, errors |-> 0,
     totalBytesSent |-> 0]

Record(c, success, bytesSent) ==
    [c EXCEPT !.totalRequests = @ + 1,
              !.totalBytesSent = @ + bytesSent,
              !.successes = IF success THEN @ + 1 ELSE @,
              !.errors = IF success THEN @ ELSE @ + 1]

Snapshot(c) ==
    [TotalRequests |-> c.totalRequests, Successes |-> c.successes, Errors |-> c.errors,
     TotalBytesSent |-> c.totalBytesSent]

NoSnap == [TotalRequests |-> 0, Successes |-> 0, Errors |-> 0, TotalBytesSent |-> 0]

\* the Snapshot values a renderer can be handed
Snapshots == [TotalRequests : Nat, Successes : Nat, Errors : Nat, TotalBytesSent : Nat]

(***************************************************************************)
(* Outcomes of client.Do.                                                  *)
(***************************************************************************)
StatusCodes == {200, 404, 500}

\* err != nil: a transport failure, or the request's context ended
TransportErrors == {"connection refused"}
ContextErrors == {"Canceled", "DeadlineExceeded"}

\* (resp, err) of client.Do: status 0 stands for resp == nil; body is the
\* state of resp.Body ("none": resp or resp.Body is nil), which client.Do
\* hands over open with every response it returns without an error
Response(code) == [err |-> "nil", status |-> code, body |-> "open"]
Failure(e) == [err |-> e, status |-> 0, body |-> "none"]
NoResult == [err |-> "none", status |-> 0, body |-> "none"]

\* a faulty slot that drains and closes the body of a successful request only
DrainAndClose_SuccessOnly(o) ==
    IF /\ o.status # 0 /\ o.body = "open"
       /\ o.err = "nil" /\ o.status >= 200 /\ o.status < 500
    THEN [o EXCEPT !.body = "closed"]
    ELSE o

\* if resp != nil && resp.Body != nil { io.Copy(io.Discard, resp.Body); resp.Body.Close() }
DrainAndClose(o) ==
    IF o.status # 0 /\ o.body = "open" THEN [o EXCEPT !.body = "closed"] ELSE o

\* resp and err go out of scope at the end of the iteration: what stays
\* behind is a body that was not closed
EndOfIteration(o) ==
    [NoResult EXCEPT !.body = IF o.body = "open" THEN "open" ELSE "none"]

\* a faulty classification that takes status 500 for a success
Success_Through500(o) == o.err = "nil" /\ o.status # 0 /\ o.status >= 200 /\ o.status <= 500

\* success := err == nil && resp != nil && resp.StatusCode >= 200 && resp.StatusCode < 500
Success(o) == o.err = "nil" /\ o.status # 0 /\ o.status >= 200 /\ o.status < 500

ctxDone == ctx \in ContextErrors

\* what client.Do can return by itself, by the way the target answers
Answers(sv) ==
    CASE sv = "always404" -> {Response(404)}
      [] sv = "always500" -> {Response(500)}
      [] OTHER -> {Response(c) : c \in StatusCodes} \cup {Failure(e) : e \in TransportErrors}

(***************************************************************************)
(* The shared client (net/http).                                           *)
(***************************************************************************)
\* a faulty client with a deadline of 30 s for every request
newHTTPClient_WithTimeout(maxConns) ==
    [Timeout |-> 30, MaxIdleConns |-> maxConns, MaxIdleConnsPerHost |-> maxConns]

\* &http.Client{Timeout: 0, Transport: &http.Transport{MaxIdleConns: maxConns, ...}}
newHTTPClient(maxConns) ==
    [Timeout |-> 0, MaxIdleConns |-> maxConns, MaxIdleConnsPerHost |-> maxConns]

\* the error of a client.Do that the client's Timeout ended
ClientTimeoutError == "Client.Timeout exceeded"

\* how the client itself can end a request: by its Timeout, if it has one
ClientDeadline(client) ==
    IF client.Timeout > 0 THEN {Failure(ClientTimeoutError)} ELSE {}

(***************************************************************************)
(* Requests (net/http): a request whose body is a bytes.Reader.            *)
(***************************************************************************)
\* http.NewRequestWithContext(ctx, method, url, bytes.NewReader(body)): the
\* reader stands at offset 0 and ContentLength is the reader's length
NewRequestWithContext(body) == [built |-> TRUE, off |-> 0, contentLength |-> Len(body)]

NoRequest == [built |-> FALSE, off |-> 0, contentLength |-> 0]

\* the bytes the transport reads from the request's reader and sends
BodySent(body, r) == SubSeq(body, r.off + 1, Len(body))

\* the request in flight, as the server observes it
Observed(body, r) == [sent |-> TRUE, body |-> BodySent(body, r), contentLength |-> r.contentLength]

NothingSent == [sent |-> FALSE, body |-> <<>>, contentLength |-> 0]

(***************************************************************************)
(* Collector (internal/stats): the whole struct, Record and Snapshot.      *)
(* float64 values are kept as exact fractions num/den in lowest terms;      *)
(* den = 0 stands for +Inf (num = 1), -Inf (num = -1) and NaN (num = 0).   *)
(***************************************************************************)
RECURSIVE GCD(_, _)
GCD(a, b) == IF b = 0 THEN a ELSE GCD(b, a % b)

Abs(x) == IF x < 0 THEN 0 - x ELSE x

\* the float64 n/d (d >= 0)
Ratio(n, d) ==
    IF d = 0 THEN [num |-> IF n > 0 THEN 1 ELSE IF n < 0 THEN 0 - 1 ELSE 0, den |-> 0]
    ELSE LET g == GCD(Abs(n), d)
         IN  [num |-> n \div g, den |-> d \div g]

Zero == [num |-> 0, den |-> 1]

RAdd(a, b) == Ratio(a.num * b.den + b.num * a.den, a.den * b.den)
RSub(a, b) == Ratio(a.num * b.den - b.num * a.den, a.den * b.den)
RMul(a, b) == Ratio(a.num * b.num, a.den * b.den)
RLess(a, b) == a.num * b.den < b.num * a.den

\* math.Sqrt(v) of a float64 v, kept as the value under the root
Sqrt(v) == [sqrt |-> v]

\* uint64 subtraction wraps around (the word size is scaled down)
Uint64Wrap == 2^10
Uint64Sub(a, b) == IF a >= b THEN a - b ELSE a - b + Uint64Wrap

\* the goroutines that call Record, and those that call Snapshot
Recorders == {"recorder1", "recorder2"}
Readers == {"reader"}

\* latencies a request can take (time.Duration)
Latencies == {10, 20, 30, 40, 50}

\* the calls the concurrent callers make (TestRecord_SuccessAndError, scaled)
SomeCalls == {[latency |-> 10, success |-> TRUE, bytesSent |-> 0, bytesRecv |-> SomeBytes],
              [latency |-> 20, success |-> FALSE, bytesSent |-> 1, bytesRecv |-> 0]}

NoCall == [latency |-> 0, success |-> FALSE, bytesSent |-> 0, bytesRecv |-> 0]

\* NewCollector(): startTime and lastBucketTime are time.Now(), the rest is zero
FreshCollector ==
    [startTime |-> 0, totalRequests |-> 0, successes |-> 0, errors |-> 0,
     totalBytesSent |-> 0, totalBytesRecv |-> 0,
     latencySamples |-> <<>>, lastBucketTime |-> 0,
     lastBucketReqs |-> 0, lastBucketSent |-> 0, lastBucketRecv |-> 0,
     rpsBuckets |-> <<>>, bytesPerSBuckets |-> <<>>]

\* a faulty counter one bit wide
AtomicAdd_OneBit(v, delta) == (v + delta) % 2

\* atomic.AddUint64(addr, delta)
AtomicAdd(v, delta) == v + delta

\* c.mu.Lock(); if len(c.latencySamples) < maxLatencySamples { append }
AppendSample(samples, latency) ==
    IF Len(samples) < maxLatencySamples THEN Append(samples, latency) ELSE samples

\* a whole Record call, as one goroutine on its own performs it
RecordCall(c, a) ==
    [c EXCEPT !.totalRequests = AtomicAdd(@, 1),
              !.totalBytesSent = AtomicAdd(@, a.bytesSent),
              !.totalBytesRecv = AtomicAdd(@, a.bytesRecv),
              !.successes = IF a.success THEN AtomicAdd(@, 1) ELSE @,
              !.errors = IF a.success THEN @ ELSE AtomicAdd(@, 1),
              !.latencySamples = AppendSample(@, a.latency)]

RECURSIVE RecordAll(_, _)
RecordAll(c, as) ==
    IF as = <<>> THEN c ELSE RecordAll(RecordCall(c, Head(as)), Tail(as))

\* what the calls made so far add up to
NoCalls == [n |-> 0, successes |-> 0, errors |-> 0, bytesSent |-> 0, bytesRecv |-> 0]

Called(k, a) ==
    [n |-> k.n + 1,
     successes |-> IF a.success THEN k.successes + 1 ELSE k.successes,
     errors |-> IF a.success THEN k.errors ELSE k.errors + 1,
     bytesSent |-> k.bytesSent + a.bytesSent,
     bytesRecv |-> k.bytesRecv + a.bytesRecv]

\* sort.Slice(latencySamples, less) / sort.Float64s(buckets): ascending order
InsertDuration(x, s) ==
    LET k == Cardinality({i \in 1..Len(s) : s[i] <= x})
    IN  SubSeq(s, 1, k) \o <<x>> \o SubSeq(s, k + 1, Len(s))

RECURSIVE sortDurations(_)
sortDurations(s) ==
    IF s = <<>> THEN <<>>
    ELSE InsertDuration(s[Len(s)], sortDurations(SubSeq(s, 1, Len(s) - 1)))

InsertFloat(x, s) ==
    LET k == Cardinality({i \in 1..Len(s) : ~RLess(x, s[i])})
    IN  SubSeq(s, 1, k) \o <<x>> \o SubSeq(s, k + 1, Len(s))

RECURSIVE sortFloat64s(_)
sortFloat64s(s) ==
    IF s = <<>> THEN <<>>
    ELSE InsertFloat(s[Len(s)], sortFloat64s(SubSeq(s, 1, Len(s) - 1)))

\* math.Round(num/den) for num >= 0: halves round away from zero
Round(num, den) == (2 * num + den) \div (2 * den)

\* a faulty index that truncates where the source rounds
percentileIndex_Truncates(n, p) ==
    LET idx == (p * (n - 1)) \div 1000
    IN  IF idx < 0 THEN 0 ELSE IF idx >= n THEN n - 1 ELSE idx

\* idx := int(math.Round(p / 100 * float64(n-1))), clamped to [0, n-1];
\* p is given in tenths of a percent (25 for 2.5)
percentileIndex(n, p) ==
    LET idx == Round(p * (n - 1), 1000)
    IN  IF idx < 0 THEN 0 ELSE IF idx >= n THEN n - 1 ELSE idx

\* s is 1-indexed here: s[idx] of the source is s[idx + 1]
percentileDuration(s, p) ==
    IF Len(s) = 0 THEN 0 ELSE s[percentileIndex(Len(s), p) + 1]

percentileFloat(s, p) ==
    IF Len(s) = 0 THEN Zero ELSE s[percentileIndex(Len(s), p) + 1]

RECURSIVE SumDurations(_)
SumDurations(s) == IF s = <<>> THEN 0 ELSE Head(s) + SumDurations(Tail(s))

RECURSIVE SumFloats(_)
SumFloats(s) == IF s = <<>> THEN Zero ELSE RAdd(Head(s), SumFloats(Tail(s)))

\* int64(math.Sqrt(x)) of a non-negative x
IntSqrt(x) == CHOOSE r \in 0..x : r * r <= x /\ (r + 1) * (r + 1) > x

avgStdevDuration(s) ==
    IF Len(s) = 0 THEN [avg |-> 0, stdev |-> 0]
    ELSE LET avg == SumDurations(s) \div Len(s)
             varSum == SumDurations([i \in 1..Len(s) |-> (s[i] - avg) * (s[i] - avg)])
         IN  [avg |-> avg, stdev |-> IntSqrt(varSum \div Len(s))]

avgStdevMinFloat(s) ==
    IF Len(s) = 0 THEN [avg |-> Zero, stdev |-> Sqrt(Zero), min |-> Zero]
    ELSE LET avg == RMul(SumFloats(s), Ratio(1, Len(s)))
             varSum == SumFloats([i \in 1..Len(s) |-> RMul(RSub(s[i], avg), RSub(s[i], avg))])
             min == CHOOSE v \in {s[i] : i \in 1..Len(s)} :
                        \A i \in 1..Len(s) : ~RLess(s[i], v)
         IN  [avg |-> avg, stdev |-> Sqrt(RMul(varSum, Ratio(1, Len(s)))), min |-> min]

\* a faulty elapsedSec without the lower limit
elapsedSec_NoFloor(elapsed) == Ratio(elapsed, Second)

\* elapsedSec := elapsed.Seconds(); if elapsedSec < 0.001 { elapsedSec = 0.001 }
elapsedSec(elapsed) ==
    IF elapsed * 1000 < Second THEN Ratio(1, 1000) ELSE Ratio(elapsed, Second)

\* the zero value of the Snapshot struct
ZeroSnapshot ==
    [TotalRequests |-> 0, Successes |-> 0, Errors |-> 0,
     TotalBytesSent |-> 0, TotalBytesRecv |-> 0, Duration |-> 0,
     RequestsPerSAvg |-> Zero, BytesPerSAvg |-> Zero,
     LatencyP25 |-> 0, LatencyP50 |-> 0, LatencyP975 |-> 0, LatencyP99 |-> 0,
     LatencyAvg |-> 0, LatencyStdev |-> 0, LatencyMax |-> 0,
     RPSP01 |-> Zero, RPSP025 |-> Zero, RPSP50 |-> Zero, RPSP975 |-> Zero,
     RPSStdev |-> Sqrt(Zero), RPSMin |-> Zero,
     BytesPerSP01 |-> Zero, BytesPerSP025 |-> Zero, BytesPerSP50 |-> Zero,
     BytesPerSP975 |-> Zero, BytesPerSStdev |-> Sqrt(Zero), BytesPerSMin |-> Zero]

\* the local variables of a Snapshot call that has not loaded anything yet
NoLocals ==
    [elapsed |-> 0, totalReqs |-> 0, totalSent |-> 0, totalRecv |-> 0,
     successes |-> 0, errors |-> 0,
     latencySamples |-> <<>>, rpsBuckets |-> <<>>, bytesBuckets |-> <<>>,
     prev |-> NoCalls, afterAll |-> FALSE]

\* a faulty flush that leaves the request marker where it was
FlushBucket_KeepsReqsMarker(c, l, t) ==
    IF t - c.lastBucketTime >= Second /\ l.totalReqs > c.lastBucketReqs
    THEN LET reqDelta  == Uint64Sub(l.totalReqs, c.lastBucketReqs)
             sentDelta == Uint64Sub(l.totalSent, c.lastBucketSent)
             recvDelta == Uint64Sub(l.totalRecv, c.lastBucketRecv)
             secs      == Ratio(t - c.lastBucketTime, Second)
             rps       == Append(c.rpsBuckets, RMul(Ratio(reqDelta, 1), Ratio(secs.den, secs.num)))
             bytes     == Append(c.bytesPerSBuckets,
                                 RMul(Ratio((sentDelta + recvDelta) % Uint64Wrap, 1),
                                      Ratio(secs.den, secs.num)))
             evict     == Len(rps) > maxBucketSamples
         IN  [c EXCEPT !.rpsBuckets = IF secs.num <= 0 THEN @ ELSE IF evict THEN Tail(rps) ELSE rps,
                       !.bytesPerSBuckets = IF secs.num <= 0 THEN @ ELSE IF evict THEN Tail(bytes) ELSE bytes,
                       !.lastBucketTime = t,
                       !.lastBucketSent = l.totalSent,
                       !.lastBucketRecv = l.totalRecv]
    ELSE c

\* a faulty flush every second, whether or not a request has arrived since the
\* last one
FlushBucket_IdleIntervals(c, l, t) ==
    IF t - c.lastBucketTime >= Second /\ l.totalReqs >= c.lastBucketReqs
    THEN LET reqDelta  == Uint64Sub(l.totalReqs, c.lastBucketReqs)
             sentDelta == Uint64Sub(l.totalSent, c.lastBucketSent)
             recvDelta == Uint64Sub(l.totalRecv, c.lastBucketRecv)
             secs      == Ratio(t - c.lastBucketTime, Second)
             rps       == Append(c.rpsBuckets, RMul(Ratio(reqDelta, 1), Ratio(secs.den, secs.num)))
             bytes     == Append(c.bytesPerSBuckets,
                                 RMul(Ratio((sentDelta + recvDelta) % Uint64Wrap, 1),
                                      Ratio(secs.den, secs.num)))
             evict     == Len(rps) > maxBucketSamples
         IN  [c EXCEPT !.rpsBuckets = IF secs.num <= 0 THEN @ ELSE IF evict THEN Tail(rps) ELSE rps,
                       !.bytesPerSBuckets = IF secs.num <= 0 THEN @ ELSE IF evict THEN Tail(bytes) ELSE bytes,
                       !.lastBucketTime = t,
                       !.lastBucketReqs = l.totalReqs,
                       !.lastBucketSent = l.totalSent,
                       !.lastBucketRecv = l.totalRecv]
    ELSE c

\* a faulty flush that never evicts a bucket
FlushBucket_NoEviction(c, l, t) ==
    IF t - c.lastBucketTime >= Second /\ l.totalReqs > c.lastBucketReqs
    THEN LET reqDelta  == Uint64Sub(l.totalReqs, c.lastBucketReqs)
             sentDelta == Uint64Sub(l.totalSent, c.lastBucketSent)
             recvDelta == Uint64Sub(l.totalRecv, c.lastBucketRecv)
             secs      == Ratio(t - c.lastBucketTime, Second)
             rps       == Append(c.rpsBuckets, RMul(Ratio(reqDelta, 1), Ratio(secs.den, secs.num)))
             bytes     == Append(c.bytesPerSBuckets,
                                 RMul(Ratio((sentDelta + recvDelta) % Uint64Wrap, 1),
                                      Ratio(secs.den, secs.num)))
             evict     == FALSE
         IN  [c EXCEPT !.rpsBuckets = IF secs.num <= 0 THEN @ ELSE IF evict THEN Tail(rps) ELSE rps,
                       !.bytesPerSBuckets = IF secs.num <= 0 THEN @ ELSE IF evict THEN Tail(bytes) ELSE bytes,
                       !.lastBucketTime = t,
                       !.lastBucketReqs = l.totalReqs,
                       !.lastBucketSent = l.totalSent,
                       !.lastBucketRecv = l.totalRecv]
    ELSE c

\* Snapshot, under the mutex: flush a bucket if a second has passed and there
\* are new requests, evicting the oldest bucket beyond maxBucketSamples
FlushBucket(c, l, t) ==
    IF t - c.lastBucketTime >= Second /\ l.totalReqs > c.lastBucketReqs
    THEN LET reqDelta  == Uint64Sub(l.totalReqs, c.lastBucketReqs)
             sentDelta == Uint64Sub(l.totalSent, c.lastBucketSent)
             recvDelta == Uint64Sub(l.totalRecv, c.lastBucketRecv)
             secs      == Ratio(t - c.lastBucketTime, Second)
             rps       == Append(c.rpsBuckets, RMul(Ratio(reqDelta, 1), Ratio(secs.den, secs.num)))
             bytes     == Append(c.bytesPerSBuckets,
                                 RMul(Ratio((sentDelta + recvDelta) % Uint64Wrap, 1),
                                      Ratio(secs.den, secs.num)))
             evict     == Len(rps) > maxBucketSamples
         IN  [c EXCEPT !.rpsBuckets = IF secs.num <= 0 THEN @ ELSE IF evict THEN Tail(rps) ELSE rps,
                       !.bytesPerSBuckets = IF secs.num <= 0 THEN @ ELSE IF evict THEN Tail(bytes) ELSE bytes,
                       !.lastBucketTime = t,
                       !.lastBucketReqs = l.totalReqs,
                       !.lastBucketSent = l.totalSent,
                       !.lastBucketRecv = l.totalRecv]
    ELSE c

\* Snapshot, after the mutex: the struct built from the loaded totals and the
\* copies, the copies sorted, percentiles and statistics taken from them
BuildSnapshot(l) ==
    LET lat   == sortDurations(l.latencySamples)
        rps   == sortFloat64s(l.rpsBuckets)
        bytes == sortFloat64s(l.bytesBuckets)
        secs  == elapsedSec(l.elapsed)
        perS(n) == RMul(Ratio(n, 1), Ratio(secs.den, secs.num))
        latStat   == avgStdevDuration(lat)
        rpsStat   == avgStdevMinFloat(rps)
        bytesStat == avgStdevMinFloat(bytes)
    IN  [TotalRequests |-> l.totalReqs, Successes |-> l.successes, Errors |-> l.errors,
         TotalBytesSent |-> l.totalSent, TotalBytesRecv |-> l.totalRecv,
         Duration |-> l.elapsed,
         RequestsPerSAvg |-> perS(l.totalReqs),
         BytesPerSAvg |-> perS((l.totalSent + l.totalRecv) % Uint64Wrap),
         LatencyP25 |-> percentileDuration(lat, 25),
         LatencyP50 |-> percentileDuration(lat, 500),
         LatencyP975 |-> percentileDuration(lat, 975),
         LatencyP99 |-> percentileDuration(lat, 990),
         LatencyAvg |-> latStat.avg, LatencyStdev |-> latStat.stdev,
         LatencyMax |-> IF Len(lat) > 0 THEN lat[Len(lat)] ELSE 0,
         RPSP01 |-> percentileFloat(rps, 10), RPSP025 |-> percentileFloat(rps, 25),
         RPSP50 |-> percentileFloat(rps, 500), RPSP975 |-> percentileFloat(rps, 975),
         RPSStdev |-> rpsStat.stdev, RPSMin |-> rpsStat.min,
         BytesPerSP01 |-> percentileFloat(bytes, 10), BytesPerSP025 |-> percentileFloat(bytes, 25),
         BytesPerSP50 |-> percentileFloat(bytes, 500), BytesPerSP975 |-> percentileFloat(bytes, 975),
         BytesPerSStdev |-> bytesStat.stdev, BytesPerSMin |-> bytesStat.min]

\* the totals of a Snapshot
Totals(sn) ==
    [n |-> sn.TotalRequests, successes |-> sn.Successes, errors |-> sn.Errors,
     bytesSent |-> sn.TotalBytesSent, bytesRecv |-> sn.TotalBytesRecv]

\* the Collector as the run specifications leave it: nobody calls it
StatsIdle ==
    /\ col = FreshCollector
    /\ mu = "free"
    /\ now = 0
    /\ recPc = [p \in Recorders |-> "idle"]
    /\ recArgs = [p \in Recorders |-> NoCall]
    /\ calls = NoCalls
    /\ snapPc = [q \in Readers |-> "idle"]
    /\ snapLoc = [q \in Readers |-> NoLocals]
    /\ snap = [q \in Readers |-> ZeroSnapshot]


(***************************************************************************)
(* Initial state: NewOrchestrator has stored the normalized configuration. *)
(***************************************************************************)
RunNotStarted ==
    /\ runPc = "validate"
    /\ runErr = "none"
    /\ dnsLookups = 0
    /\ ulimitWarned = FALSE
    /\ ctx = "absent"
    /\ timerFired = FALSE
    /\ durationDone = FALSE
    /\ cancelCalls = {}
    /\ sigNotify = FALSE
    /\ sigCh = 0
    /\ interrupted = FALSE
    /\ collector = NoCollector
    /\ clientCreated = FALSE
    /\ rendererPc = "absent"
    /\ finalSnap = NoSnap
    /\ doneRendering = FALSE
    /\ watcherPc = "absent"
    /\ workerPc = [w \in WorkerIds |-> "absent"]
    /\ slotPc = [s \in SlotIds |-> "absent"]
    /\ slotRes = [s \in SlotIds |-> NoResult]
    /\ issued = 0
    /\ slotReq = [s \in SlotIds |-> NoRequest]
    /\ sentReq = [s \in SlotIds |-> NothingSent]

NotStarted == RunNotStarted /\ StatsIdle

Init ==
    /\ \E c \in RunConfigs :
          /\ cfg = NewOrchestrator(c)
          /\ cfg.Workers * cfg.Pipeline <= MaxSlots
    /\ server = "any"
    /\ NotStarted

(***************************************************************************)
(* cancel(): the first call ends the context, later calls change nothing.  *)
(***************************************************************************)
\* a faulty cancel that ends the context anew on every call
cancel_Overwrites(c) == IF c = "absent" THEN c ELSE "Canceled"

cancel(c) == IF c = "active" THEN "Canceled" ELSE c

(***************************************************************************)
(* Orchestrator.Run                                                        *)
(***************************************************************************)
\* a faulty Run that lacks the empty-URL check
RunValidateURL_NoCheck ==
    /\ runPc = "validate"
    /\ runPc' = "dns"
    /\ UNCHANGED <<statsVars, server, slotReq, sentReq,
                   cfg, runErr, dnsLookups, ulimitWarned, ctx, timerFired, durationDone,
                   cancelCalls, sigNotify, sigCh, interrupted, collector,
                   clientCreated, rendererPc, finalSnap, doneRendering,
                   watcherPc, workerPc, slotPc, slotRes, issued, server, slotReq, sentReq,
          statsVars>>

\* if o.cfg.URL == "" { return fmt.Errorf("url is required") }
RunValidateURL ==
    /\ runPc = "validate"
    /\ IF cfg.URL = ""
         THEN runPc' = "returned" /\ runErr' = "url is required"
         ELSE runPc' = "dns" /\ runErr' = runErr
    /\ UNCHANGED <<statsVars, server, slotReq, sentReq,
                   cfg, dnsLookups, ulimitWarned, ctx, timerFired, durationDone,
                   cancelCalls, sigNotify, sigCh, interrupted, collector,
                   clientCreated, rendererPc, finalSnap, doneRendering,
                   watcherPc, workerPc, slotPc, slotRes, issued, server, slotReq, sentReq,
          statsVars>>

\* a faulty Run that drops the preflight error and goes on
RunPreflightDNS_IgnoresError ==
    /\ runPc = "dns"
    /\ dnsLookups' = dnsLookups + PreflightDNS(cfg.URL).lookups
    /\ runPc' = "ulimit"
    /\ UNCHANGED <<statsVars, server, slotReq, sentReq,
                   cfg, runErr, ulimitWarned, ctx, timerFired, durationDone,
                   cancelCalls, sigNotify, sigCh, interrupted, collector,
                   clientCreated, rendererPc, finalSnap, doneRendering,
                   watcherPc, workerPc, slotPc, slotRes, issued, server, slotReq, sentReq,
          statsVars>>

\* if err := netutil.PreflightDNS(o.cfg.URL); err != nil { return err }
RunPreflightDNS ==
    /\ runPc = "dns"
    /\ LET r == PreflightDNS(cfg.URL)
       IN  /\ dnsLookups' = dnsLookups + r.lookups
           /\ IF r.err # "nil"
                THEN runPc' = "returned" /\ runErr' = r.err
                ELSE runPc' = "ulimit" /\ runErr' = runErr
    /\ UNCHANGED <<statsVars, server, slotReq, sentReq,
                   cfg, ulimitWarned, ctx, timerFired, durationDone,
                   cancelCalls, sigNotify, sigCh, interrupted, collector,
                   clientCreated, rendererPc, finalSnap, doneRendering,
                   watcherPc, workerPc, slotPc, slotRes, issued, server, slotReq, sentReq,
          statsVars>>

\* a faulty Run that returns a resource-limit violation as its error
RunCheckUlimit_Fatal ==
    /\ runPc = "ulimit"
    /\ \E getrlimitOk \in BOOLEAN :
          LET err == CheckUlimitWarning(cfg.Connections, getrlimitOk)
          IN  IF err # "nil"
                THEN runPc' = "returned" /\ runErr' = err
                ELSE runPc' = "setup" /\ runErr' = runErr
    /\ UNCHANGED <<statsVars, server, slotReq, sentReq,
                   cfg, dnsLookups, ulimitWarned, ctx, timerFired, durationDone,
                   cancelCalls, sigNotify, sigCh, interrupted, collector,
                   clientCreated, rendererPc, finalSnap, doneRendering,
                   watcherPc, workerPc, slotPc, slotRes, issued, server, slotReq, sentReq,
          statsVars>>

\* if err := netutil.CheckUlimitWarning(...); err != nil { fmt.Fprintf(os.Stderr, ...) }
RunCheckUlimit ==
    /\ runPc = "ulimit"
    /\ \E getrlimitOk \in BOOLEAN :
          ulimitWarned' = (CheckUlimitWarning(cfg.Connections, getrlimitOk) # "nil")
    /\ runPc' = "setup"
    /\ UNCHANGED <<statsVars, server, slotReq, sentReq,
                   cfg, runErr, dnsLookups, ctx, timerFired, durationDone,
                   cancelCalls, sigNotify, sigCh, interrupted, collector,
                   clientCreated, rendererPc, finalSnap, doneRendering,
                   watcherPc, workerPc, slotPc, slotRes, issued, server, slotReq, sentReq,
          statsVars>>

\* context.WithTimeout, signal.Notify, NewCollector, newHTTPClient, go renderer loop
RunSetup ==
    /\ runPc = "setup"
    /\ ctx' = "active"
    /\ sigNotify' = TRUE
    /\ collector' = NewCollector
    /\ clientCreated' = TRUE
    /\ rendererPc' = "loop"
    /\ runPc' = "spawn"
    /\ UNCHANGED <<statsVars, server, slotReq, sentReq,
                   cfg, runErr, dnsLookups, ulimitWarned, timerFired, durationDone,
                   cancelCalls, sigCh, interrupted, finalSnap,
                   doneRendering, watcherPc, workerPc, slotPc, slotRes, issued>>

\* for i := 0; i < o.cfg.Workers; i++ { wg.Add(1); go worker(...) }; go watcher
RunSpawn ==
    /\ runPc = "spawn"
    /\ workerPc' = [w \in WorkerIds |-> IF w \in Workers THEN "start" ELSE "absent"]
    /\ watcherPc' = "select"
    /\ runPc' = "wait"
    /\ UNCHANGED <<statsVars, server, slotReq, sentReq,
                   cfg, runErr, dnsLookups, ulimitWarned, ctx, timerFired, durationDone,
                   cancelCalls, sigNotify, sigCh, interrupted, collector,
                   clientCreated, rendererPc, finalSnap, doneRendering,
                   slotPc, slotRes, issued>>

\* wg.Wait()
RunWait ==
    /\ runPc = "wait"
    /\ \A w \in Workers : workerPc[w] = "done"
    /\ runPc' = "cancel"
    /\ UNCHANGED <<statsVars, server, slotReq, sentReq,
                   cfg, runErr, dnsLookups, ulimitWarned, ctx, timerFired, durationDone,
                   cancelCalls, sigNotify, sigCh, interrupted, collector,
                   clientCreated, rendererPc, finalSnap, doneRendering,
                   watcherPc, workerPc, slotPc, slotRes, issued, server, slotReq, sentReq,
          statsVars>>

\* cancel()
RunCancel ==
    /\ runPc = "cancel"
    /\ ctx' = cancel(ctx)
    /\ cancelCalls' = cancelCalls \cup {"orchestrator"}
    /\ runPc' = "rendezvous"
    /\ UNCHANGED <<statsVars, server, slotReq, sentReq,
                   cfg, runErr, dnsLookups, ulimitWarned, timerFired, durationDone,
                   sigNotify, sigCh, interrupted, collector,
                   clientCreated, rendererPc, finalSnap, doneRendering,
                   watcherPc, workerPc, slotPc, slotRes, issued, server, slotReq, sentReq,
          statsVars>>

\* a faulty Run that returns without waiting on doneRendering
RunReturn_NoRendezvous ==
    /\ runPc = "rendezvous"
    /\ runErr' = "nil"
    /\ runPc' = "returned"
    /\ sigNotify' = FALSE
    /\ ctx' = cancel(ctx)
    /\ cancelCalls' = cancelCalls \cup {"defer"}
    /\ UNCHANGED <<statsVars, server, slotReq, sentReq,
                   cfg, dnsLookups, ulimitWarned, timerFired, durationDone,
                   sigCh, interrupted, collector,
                   clientCreated, rendererPc, finalSnap, doneRendering,
                   watcherPc, workerPc, slotPc, slotRes, issued, server, slotReq, sentReq,
          statsVars>>

\* <-doneRendering; return nil; then the deferred signal.Stop(sigCh) and cancel()
RunReturn ==
    /\ runPc = "rendezvous"
    /\ doneRendering
    /\ runErr' = "nil"
    /\ runPc' = "returned"
    /\ sigNotify' = FALSE
    /\ ctx' = cancel(ctx)
    /\ cancelCalls' = cancelCalls \cup {"defer"}
    /\ UNCHANGED <<statsVars, server, slotReq, sentReq,
                   cfg, dnsLookups, ulimitWarned, timerFired, durationDone,
                   sigCh, interrupted, collector,
                   clientCreated, rendererPc, finalSnap, doneRendering,
                   watcherPc, workerPc, slotPc, slotRes, issued, server, slotReq, sentReq,
          statsVars>>

(***************************************************************************)
(* Environment: the context's timer and the user's interrupt.              *)
(***************************************************************************)
\* a faulty timer that cancel() does not stop: it fires on an ended context
TimerFire_NotStopped ==
    /\ ctx # "absent"
    /\ ~timerFired
    /\ ctx' = "DeadlineExceeded"
    /\ timerFired' = TRUE
    /\ UNCHANGED <<statsVars, server, slotReq, sentReq,
                   cfg, runPc, runErr, dnsLookups, ulimitWarned, durationDone,
                   cancelCalls, sigNotify, sigCh, interrupted, collector,
                   clientCreated, rendererPc, finalSnap, doneRendering,
                   watcherPc, workerPc, slotPc, slotRes, issued>>

\* the timer of context.WithTimeout(..., o.cfg.Duration) fires: ctx ends with
\* DeadlineExceeded unless cancel() already stopped the timer
TimerFire ==
    /\ ctx = "active"
    /\ ctx' = "DeadlineExceeded"
    /\ timerFired' = TRUE
    /\ UNCHANGED <<statsVars, server, slotReq, sentReq,
                   cfg, runPc, runErr, dnsLookups, ulimitWarned, durationDone,
                   cancelCalls, sigNotify, sigCh, interrupted, collector,
                   clientCreated, rendererPc, finalSnap, doneRendering,
                   watcherPc, workerPc, slotPc, slotRes, issued, server, slotReq, sentReq,
          statsVars>>

\* SIGINT/SIGTERM while signal.Notify is in force: a send on sigCh that is
\* dropped when the buffer (capacity 1) is full
Interrupt ==
    /\ sigNotify
    /\ sigCh' = 1
    /\ interrupted' = TRUE
    /\ UNCHANGED <<statsVars, server, slotReq, sentReq,
                   cfg, runPc, runErr, dnsLookups, ulimitWarned, ctx, timerFired,
                   durationDone, cancelCalls, sigNotify, collector,
                   clientCreated, rendererPc, finalSnap, doneRendering,
                   watcherPc, workerPc, slotPc, slotRes, issued, server, slotReq, sentReq,
          statsVars>>

(***************************************************************************)
(* The interrupt watcher goroutine.                                        *)
(***************************************************************************)
\* a faulty watcher that receives the signal and does not call cancel()
Watcher_NoCancel ==
    /\ watcherPc = "select"
    /\ \/ /\ sigCh > 0
          /\ sigCh' = sigCh - 1
          /\ UNCHANGED <<ctx, cancelCalls>>
       \/ /\ ctxDone
          /\ UNCHANGED <<sigCh, ctx, cancelCalls>>
    /\ watcherPc' = "done"
    /\ UNCHANGED <<statsVars, server, slotReq, sentReq,
                   cfg, runPc, runErr, dnsLookups, ulimitWarned, timerFired,
                   durationDone, sigNotify, interrupted, collector,
                   clientCreated, rendererPc, finalSnap, doneRendering,
                   workerPc, slotPc, slotRes, issued>>

\* select { case <-sigCh: cancel(); case <-ctx.Done(): }
Watcher ==
    /\ watcherPc = "select"
    /\ \/ /\ sigCh > 0
          /\ sigCh' = sigCh - 1
          /\ ctx' = cancel(ctx)
          /\ cancelCalls' = cancelCalls \cup {"watcher"}
       \/ /\ ctxDone
          /\ UNCHANGED <<sigCh, ctx, cancelCalls>>
    /\ watcherPc' = "done"
    /\ UNCHANGED <<statsVars, server, slotReq, sentReq,
                   cfg, runPc, runErr, dnsLookups, ulimitWarned, timerFired,
                   durationDone, sigNotify, interrupted, collector,
                   clientCreated, rendererPc, finalSnap, doneRendering,
                   workerPc, slotPc, slotRes, issued>>

(***************************************************************************)
(* The renderer goroutine.                                                 *)
(***************************************************************************)
\* case <-ticker.C: snap := collector.Snapshot(); o.renderer.Render(snap)
RendererTick ==
    /\ rendererPc = "loop"
    /\ Snapshot(collector) \in Snapshots
    /\ UNCHANGED vars

\* case <-ctx.Done(): snap := collector.Snapshot()
RendererFinalSnapshot ==
    /\ rendererPc = "loop"
    /\ ctxDone
    /\ finalSnap' = Snapshot(collector)
    /\ rendererPc' = "final"
    /\ UNCHANGED <<statsVars, server, slotReq, sentReq,
                   cfg, runPc, runErr, dnsLookups, ulimitWarned, ctx, timerFired,
                   durationDone, cancelCalls, sigNotify, sigCh, interrupted, collector,
                   clientCreated, doneRendering,
                   watcherPc, workerPc, slotPc, slotRes, issued, server, slotReq, sentReq,
          statsVars>>

\* o.renderer.RenderFinal(snap); close(doneRendering); return
RendererRenderFinal ==
    /\ rendererPc = "final"
    /\ doneRendering' = TRUE
    /\ rendererPc' = "done"
    /\ UNCHANGED <<statsVars, server, slotReq, sentReq,
                   cfg, runPc, runErr, dnsLookups, ulimitWarned, ctx, timerFired,
                   durationDone, cancelCalls, sigNotify, sigCh, interrupted, collector,
                   clientCreated, finalSnap,
                   watcherPc, workerPc, slotPc, slotRes, issued, server, slotReq, sentReq,
          statsVars>>

(***************************************************************************)
(* worker                                                                  *)
(***************************************************************************)
\* a faulty worker whose loop runs for i <= pipeline
WorkerStart_OneTooMany(w) ==
    /\ workerPc[w] = "start"
    /\ slotPc' = [s \in SlotIds |-> IF s[1] = w /\ s[2] <= pipeline + 1 THEN "new" ELSE slotPc[s]]
    /\ workerPc' = [workerPc EXCEPT ![w] = "wait"]
    /\ UNCHANGED <<statsVars, server, slotReq, sentReq,
                   cfg, runPc, runErr, dnsLookups, ulimitWarned, ctx, timerFired,
                   durationDone, cancelCalls, sigNotify, sigCh, interrupted, collector,
                   clientCreated, rendererPc, finalSnap, doneRendering,
                   watcherPc, slotRes, issued>>

\* for i := 0; i < pipeline; i++ { wg.Add(1); go runPipelineSlot(...) }
WorkerStart(w) ==
    /\ workerPc[w] = "start"
    /\ slotPc' = [s \in SlotIds |-> IF s \in SlotsOf(w) THEN "new" ELSE slotPc[s]]
    /\ workerPc' = [workerPc EXCEPT ![w] = "wait"]
    /\ UNCHANGED <<statsVars, server, slotReq, sentReq,
                   cfg, runPc, runErr, dnsLookups, ulimitWarned, ctx, timerFired,
                   durationDone, cancelCalls, sigNotify, sigCh, interrupted, collector,
                   clientCreated, rendererPc, finalSnap, doneRendering,
                   watcherPc, slotRes, issued>>

\* wg.Wait() of the worker, then the deferred wg.Done() of Run's goroutine
WorkerJoin(w) ==
    /\ workerPc[w] = "wait"
    /\ \A s \in SlotsOf(w) : slotPc[s] = "stopped"
    /\ workerPc' = [workerPc EXCEPT ![w] = "done"]
    /\ UNCHANGED <<statsVars, server, slotReq, sentReq,
                   cfg, runPc, runErr, dnsLookups, ulimitWarned, ctx, timerFired,
                   durationDone, cancelCalls, sigNotify, sigCh, interrupted, collector,
                   clientCreated, rendererPc, finalSnap, doneRendering,
                   watcherPc, slotPc, slotRes, issued>>

(***************************************************************************)
(* runPipelineSlot                                                         *)
(***************************************************************************)
\* req, err := http.NewRequestWithContext(...); if err != nil { return }
SlotNewRequest(s) ==
    /\ slotPc[s] = "new"
    /\ slotPc' = [slotPc EXCEPT ![s] =
                     IF NewRequestFails(cfg.Method) THEN "stopped" ELSE "iterate"]
    /\ slotReq' = [slotReq EXCEPT ![s] =
                      IF NewRequestFails(cfg.Method) THEN @ ELSE NewRequestWithContext(cfg.Body)]
    /\ UNCHANGED <<statsVars, server, sentReq,
                   cfg, runPc, runErr, dnsLookups, ulimitWarned, ctx, timerFired,
                   durationDone, cancelCalls, sigNotify, sigCh, interrupted, collector,
                   clientCreated, rendererPc, finalSnap, doneRendering,
                   watcherPc, workerPc, slotRes, issued>>

\* a faulty slot whose select has no ctx.Done() case
SlotStop_IgnoresCtx(s) ==
    /\ slotPc[s] = "iterate"
    /\ durationDone
    /\ slotPc' = [slotPc EXCEPT ![s] = "stopped"]
    /\ UNCHANGED <<statsVars, server, slotReq, sentReq,
                   cfg, runPc, runErr, dnsLookups, ulimitWarned, ctx, timerFired,
                   durationDone, cancelCalls, sigNotify, sigCh, interrupted, collector,
                   clientCreated, rendererPc, finalSnap, doneRendering,
                   watcherPc, workerPc, slotRes, issued>>

\* select { case <-ctx.Done(): return; case <-durationDone: return; ... }
SlotStop(s) ==
    /\ slotPc[s] = "iterate"
    /\ ctxDone \/ durationDone
    /\ slotPc' = [slotPc EXCEPT ![s] = "stopped"]
    /\ UNCHANGED <<statsVars, server, slotReq, sentReq,
                   cfg, runPc, runErr, dnsLookups, ulimitWarned, ctx, timerFired,
                   durationDone, cancelCalls, sigNotify, sigCh, interrupted, collector,
                   clientCreated, rendererPc, finalSnap, doneRendering,
                   watcherPc, workerPc, slotRes, issued>>

\* a faulty slot that hands req itself to client.Do on every iteration
SlotIssue_ReusesRequest(s) ==
    /\ slotPc[s] = "iterate"
    /\ ~ctxDone /\ ~durationDone
    /\ issued < MaxRequests
    /\ issued' = issued + 1
    /\ sentReq' = [sentReq EXCEPT ![s] = Observed(cfg.Body, slotReq[s])]
    /\ slotReq' = [slotReq EXCEPT ![s].off = Len(cfg.Body)]
    /\ slotPc' = [slotPc EXCEPT ![s] = "inflight"]
    /\ UNCHANGED <<statsVars, server,
                   cfg, runPc, runErr, dnsLookups, ulimitWarned, ctx, timerFired,
                   durationDone, cancelCalls, sigNotify, sigCh, interrupted, collector,
                   clientCreated, rendererPc, finalSnap, doneRendering,
                   watcherPc, workerPc, slotRes>>

\* default: r := req, or a new request over a new reader when there is a
\* body; client.Do(r) reads r's reader to its end
SlotIssue(s) ==
    /\ slotPc[s] = "iterate"
    /\ ~ctxDone /\ ~durationDone
    /\ issued < MaxRequests
    /\ issued' = issued + 1
    /\ LET fresh == Len(cfg.Body) > 0
           r == IF fresh THEN NewRequestWithContext(cfg.Body) ELSE slotReq[s]
       IN  /\ sentReq' = [sentReq EXCEPT ![s] = Observed(cfg.Body, r)]
           /\ slotReq' = IF fresh THEN slotReq
                         ELSE [slotReq EXCEPT ![s].off = Len(cfg.Body)]
    /\ slotPc' = [slotPc EXCEPT ![s] = "inflight"]
    /\ UNCHANGED <<statsVars, server,
                   cfg, runPc, runErr, dnsLookups, ulimitWarned, ctx, timerFired,
                   durationDone, cancelCalls, sigNotify, sigCh, interrupted, collector,
                   clientCreated, rendererPc, finalSnap, doneRendering,
                   watcherPc, workerPc, slotRes>>

\* client.Do returns by itself: a response with some status, a transport
\* error, or the error of the client's own deadline
RequestComplete(s) ==
    /\ slotPc[s] = "inflight"
    /\ \E o \in Answers(server) \cup ClientDeadline(newHTTPClient(cfg.Connections)) :
          slotRes' = [slotRes EXCEPT ![s] = o]
    /\ sentReq' = [sentReq EXCEPT ![s] = NothingSent]
    /\ slotPc' = [slotPc EXCEPT ![s] = "record"]
    /\ UNCHANGED <<statsVars, server, slotReq,
                   cfg, runPc, runErr, dnsLookups, ulimitWarned, ctx, timerFired,
                   durationDone, cancelCalls, sigNotify, sigCh, interrupted, collector,
                   clientCreated, rendererPc, finalSnap, doneRendering,
                   watcherPc, workerPc, issued>>

\* a faulty slot that goes on to its next iteration when its request was
\* aborted, and records nothing
RequestAbort_NotRecorded(s) ==
    /\ slotPc[s] = "inflight"
    /\ ctxDone
    /\ sentReq' = [sentReq EXCEPT ![s] = NothingSent]
    /\ slotPc' = [slotPc EXCEPT ![s] = "iterate"]
    /\ UNCHANGED <<statsVars, server, slotReq, slotRes,
                   cfg, runPc, runErr, dnsLookups, ulimitWarned, ctx, timerFired,
                   durationDone, cancelCalls, sigNotify, sigCh, interrupted, collector,
                   clientCreated, rendererPc, finalSnap, doneRendering,
                   watcherPc, workerPc, issued>>

\* client.Do returns ctx.Err() because the request's context has ended
RequestAbort(s) ==
    /\ slotPc[s] = "inflight"
    /\ ctxDone
    /\ slotRes' = [slotRes EXCEPT ![s] = Failure(ctx)]
    /\ sentReq' = [sentReq EXCEPT ![s] = NothingSent]
    /\ slotPc' = [slotPc EXCEPT ![s] = "record"]
    /\ UNCHANGED <<statsVars, server, slotReq,
                   cfg, runPc, runErr, dnsLookups, ulimitWarned, ctx, timerFired,
                   durationDone, cancelCalls, sigNotify, sigCh, interrupted, collector,
                   clientCreated, rendererPc, finalSnap, doneRendering,
                   watcherPc, workerPc, issued>>

\* a faulty slot that returns after recording a failed request
SlotRecord_StopsOnFailure(s) ==
    /\ slotPc[s] = "record"
    /\ LET o == DrainAndClose(slotRes[s])
       IN  /\ collector' = Record(collector, Success(o), Len(cfg.Body))
           /\ slotRes' = [slotRes EXCEPT ![s] = EndOfIteration(o)]
    /\ slotPc' = [slotPc EXCEPT ![s] = IF Success(slotRes[s]) THEN "iterate" ELSE "stopped"]
    /\ UNCHANGED <<statsVars, server, slotReq, sentReq,
                   cfg, runPc, runErr, dnsLookups, ulimitWarned, ctx, timerFired,
                   durationDone, cancelCalls, sigNotify, sigCh, interrupted,
                   clientCreated, rendererPc, finalSnap, doneRendering,
                   watcherPc, workerPc, issued>>

\* a faulty slot that records successes only
SlotRecord_SkipsFailure(s) ==
    /\ slotPc[s] = "record"
    /\ LET o == DrainAndClose(slotRes[s])
       IN  /\ collector' = IF Success(o) THEN Record(collector, TRUE, Len(cfg.Body))
                           ELSE collector
           /\ slotRes' = [slotRes EXCEPT ![s] = EndOfIteration(o)]
    /\ slotPc' = [slotPc EXCEPT ![s] = "iterate"]
    /\ UNCHANGED <<statsVars, server, slotReq, sentReq,
                   cfg, runPc, runErr, dnsLookups, ulimitWarned, ctx, timerFired,
                   durationDone, cancelCalls, sigNotify, sigCh, interrupted,
                   clientCreated, rendererPc, finalSnap, doneRendering,
                   watcherPc, workerPc, issued>>

\* a faulty slot that counts the bytes of a successful request only
SlotRecord_SentOnSuccess(s) ==
    /\ slotPc[s] = "record"
    /\ LET o == DrainAndClose(slotRes[s])
       IN  /\ collector' = Record(collector, Success(o),
                                  IF Success(o) THEN Len(cfg.Body) ELSE 0)
           /\ slotRes' = [slotRes EXCEPT ![s] = EndOfIteration(o)]
    /\ slotPc' = [slotPc EXCEPT ![s] = "iterate"]
    /\ UNCHANGED <<statsVars, server, slotReq, sentReq,
                   cfg, runPc, runErr, dnsLookups, ulimitWarned, ctx, timerFired,
                   durationDone, cancelCalls, sigNotify, sigCh, interrupted,
                   clientCreated, rendererPc, finalSnap, doneRendering,
                   watcherPc, workerPc, issued>>

\* the drain of resp.Body; success := ...; bytesSent is uint64(len(cfg.Body));
\* collector.Record(latency, success, bytesSent, bytesRecv)
SlotRecord(s) ==
    /\ slotPc[s] = "record"
    /\ LET o == DrainAndClose(slotRes[s])
       IN  /\ collector' = Record(collector, Success(o), Len(cfg.Body))
           /\ slotRes' = [slotRes EXCEPT ![s] = EndOfIteration(o)]
    /\ slotPc' = [slotPc EXCEPT ![s] = "iterate"]
    /\ UNCHANGED <<statsVars, server, slotReq, sentReq,
                   cfg, runPc, runErr, dnsLookups, ulimitWarned, ctx, timerFired,
                   durationDone, cancelCalls, sigNotify, sigCh, interrupted,
                   clientCreated, rendererPc, finalSnap, doneRendering,
                   watcherPc, workerPc, issued>>

(***************************************************************************)
(* Specifications.                                                         *)
(***************************************************************************)
Next ==
    \/ RunValidateURL
    \/ RunPreflightDNS
    \/ RunCheckUlimit
    \/ RunSetup
    \/ RunSpawn
    \/ RunWait
    \/ RunCancel
    \/ RunReturn
    \/ TimerFire
    \/ Interrupt
    \/ Watcher
    \/ RendererTick
    \/ RendererFinalSnapshot
    \/ RendererRenderFinal
    \/ \E w \in Workers : WorkerStart(w)
    \/ \E w \in Workers : WorkerJoin(w)
    \/ \E s \in Slots : SlotNewRequest(s)
    \/ \E s \in Slots : SlotStop(s)
    \/ \E s \in Slots : SlotIssue(s)
    \/ \E s \in Slots : RequestComplete(s)
    \/ \E s \in Slots : RequestAbort(s)
    \/ \E s \in Slots : SlotRecord(s)

Spec == Init /\ [][Next]_vars

(***************************************************************************)
(* A run that sends a body with every request (TestRun_WithBody).          *)
(***************************************************************************)
BodyInit ==
    /\ cfg = NewOrchestrator([BaseConfig EXCEPT !.Body = SomeBody])
    /\ server = "any"
    /\ NotStarted

BodySpec == BodyInit /\ [][Next]_vars

(***************************************************************************)
(* A run nobody interrupts, against a target that answers every request    *)
(* with the same status (TestRun_EdgeCase_ServerReturns404 / ...500).      *)
(***************************************************************************)
ServedInit ==
    /\ \E c \in RunConfigs :
          /\ c.URL = BaseConfig.URL
          /\ cfg = NewOrchestrator(c)
          /\ cfg.Workers * cfg.Pipeline <= MaxSlots
    /\ server \in {"always404", "always500"}
    /\ NotStarted

ServedNext ==
    \/ RunValidateURL
    \/ RunPreflightDNS
    \/ RunCheckUlimit
    \/ RunSetup
    \/ RunSpawn
    \/ RunWait
    \/ RunCancel
    \/ RunReturn
    \/ TimerFire
    \/ Watcher
    \/ RendererTick
    \/ RendererFinalSnapshot
    \/ RendererRenderFinal
    \/ \E w \in Workers : WorkerStart(w)
    \/ \E w \in Workers : WorkerJoin(w)
    \/ \E s \in Slots : SlotNewRequest(s)
    \/ \E s \in Slots : SlotStop(s)
    \/ \E s \in Slots : SlotIssue(s)
    \/ \E s \in Slots : RequestComplete(s)
    \/ \E s \in Slots : RequestAbort(s)
    \/ \E s \in Slots : SlotRecord(s)

ServedSpec == ServedInit /\ [][ServedNext]_vars

\* the same run, which the user may interrupt
InterruptedSpec == ServedInit /\ [][Next]_vars

(***************************************************************************)
(* The classification of an outcome: the one slot of BaseConfig holds the  *)
(* result of its first client.Do, whatever it is, and records it.          *)
(***************************************************************************)
\* every (resp, err) a client.Do can hand back: an error or none, no
\* response or one with any status
Outcomes ==
    {o \in [err : {"nil"} \cup TransportErrors, status : {0} \cup 100..MaxStatus,
            body : {"none", "open"}] : o.status = 0 => o.body = "none"}

ClassifyInit ==
    /\ cfg = NewOrchestrator(BaseConfig)
    /\ server = "any"
    /\ runPc = "wait"
    /\ runErr = "none"
    /\ dnsLookups = 1
    /\ ulimitWarned = FALSE
    /\ ctx = "active"
    /\ timerFired = FALSE
    /\ durationDone = FALSE
    /\ cancelCalls = {}
    /\ sigNotify = TRUE
    /\ sigCh = 0
    /\ interrupted = FALSE
    /\ collector = NewCollector
    /\ clientCreated = TRUE
    /\ rendererPc = "loop"
    /\ finalSnap = NoSnap
    /\ doneRendering = FALSE
    /\ watcherPc = "select"
    /\ workerPc = [w \in WorkerIds |-> IF w = 1 THEN "wait" ELSE "absent"]
    /\ slotPc = [s \in SlotIds |-> IF s = <<1, 1>> THEN "record" ELSE "absent"]
    /\ \E o \in Outcomes : slotRes = [s \in SlotIds |-> IF s = <<1, 1>> THEN o ELSE NoResult]
    /\ issued = 1
    /\ slotReq = [s \in SlotIds |-> IF s = <<1, 1>> THEN NewRequestWithContext(cfg.Body)
                                     ELSE NoRequest]
    /\ sentReq = [s \in SlotIds |-> IF s = <<1, 1>>
                                     THEN Observed(cfg.Body, NewRequestWithContext(cfg.Body))
                                     ELSE NothingSent]
    /\ StatsIdle

ClassifyNext == \E s \in Slots : SlotRecord(s)

ClassifySpec == ClassifyInit /\ [][ClassifyNext]_vars

(***************************************************************************)
(* A run whose slots take the stop check of an iteration and the request   *)
(* of that iteration in two steps: the signals can be triggered between    *)
(* the select that took its default case and the client.Do that follows.   *)
(***************************************************************************)
\* the slots that have taken the default case and not yet called client.Do
InDefault == {s \in SlotIds : slotPc[s] = "default"}

\* a faulty select that takes its default case whatever the channels say
SlotDefault_Unconditional(s) ==
    /\ slotPc[s] = "iterate"
    /\ issued + Cardinality(InDefault) < MaxRequests
    /\ slotPc' = [slotPc EXCEPT ![s] = "default"]
    /\ UNCHANGED <<statsVars, server, slotReq, sentReq,
                   cfg, runPc, runErr, dnsLookups, ulimitWarned, ctx, timerFired,
                   durationDone, cancelCalls, sigNotify, sigCh, interrupted, collector,
                   clientCreated, rendererPc, finalSnap, doneRendering,
                   watcherPc, workerPc, slotRes, issued>>

\* select { ...; default: }: taken only when neither channel is ready
SlotDefault(s) ==
    /\ slotPc[s] = "iterate"
    /\ ~ctxDone /\ ~durationDone
    /\ issued + Cardinality(InDefault) < MaxRequests
    /\ slotPc' = [slotPc EXCEPT ![s] = "default"]
    /\ UNCHANGED <<statsVars, server, slotReq, sentReq,
                   cfg, runPc, runErr, dnsLookups, ulimitWarned, ctx, timerFired,
                   durationDone, cancelCalls, sigNotify, sigCh, interrupted, collector,
                   clientCreated, rendererPc, finalSnap, doneRendering,
                   watcherPc, workerPc, slotRes, issued>>

\* the body of the default case up to client.Do(r): r is req, or a new
\* request over a new reader when there is a body
SlotDo(s) ==
    /\ slotPc[s] = "default"
    /\ issued' = issued + 1
    /\ LET fresh == Len(cfg.Body) > 0
           r == IF fresh THEN NewRequestWithContext(cfg.Body) ELSE slotReq[s]
       IN  /\ sentReq' = [sentReq EXCEPT ![s] = Observed(cfg.Body, r)]
           /\ slotReq' = IF fresh THEN slotReq
                         ELSE [slotReq EXCEPT ![s].off = Len(cfg.Body)]
    /\ slotPc' = [slotPc EXCEPT ![s] = "inflight"]
    /\ UNCHANGED <<statsVars, server,
                   cfg, runPc, runErr, dnsLookups, ulimitWarned, ctx, timerFired,
                   durationDone, cancelCalls, sigNotify, sigCh, interrupted, collector,
                   clientCreated, rendererPc, finalSnap, doneRendering,
                   watcherPc, workerPc, slotRes>>

StopCheckNext ==
    \/ RunValidateURL
    \/ RunPreflightDNS
    \/ RunCheckUlimit
    \/ RunSetup
    \/ RunSpawn
    \/ RunWait
    \/ RunCancel
    \/ RunReturn
    \/ TimerFire
    \/ Interrupt
    \/ Watcher
    \/ RendererTick
    \/ RendererFinalSnapshot
    \/ RendererRenderFinal
    \/ \E w \in Workers : WorkerStart(w)
    \/ \E w \in Workers : WorkerJoin(w)
    \/ \E s \in Slots : SlotNewRequest(s)
    \/ \E s \in Slots : SlotStop(s)
    \/ \E s \in Slots : SlotDefault(s)
    \/ \E s \in Slots : SlotDo(s)
    \/ \E s \in Slots : RequestComplete(s)
    \/ \E s \in Slots : RequestAbort(s)
    \/ \E s \in Slots : SlotRecord(s)

StopCheckSpec == Init /\ [][StopCheckNext]_vars

(***************************************************************************)
(* The constructor: a caller holds any Config value, zero and negative     *)
(* counts included, and calls NewOrchestrator with it.                     *)
(***************************************************************************)
\* every value of the Config struct a caller can write down
AnyConfig == [URL : URLs, Method : Methods, Workers : (0 - 1)..MaxSlots,
              Pipeline : (0 - 1)..MaxSlots, Connections : {0 - 1, 0, SomeConns},
              Duration : {0 - 1, 0, SomeDuration}, Body : Bodies]

\* cfg is the caller's value, no Orchestrator exists yet
NormalizeInit ==
    /\ cfg \in AnyConfig
    /\ server = "any"
    /\ runPc = "new"
    /\ runErr = "none"
    /\ dnsLookups = 0
    /\ ulimitWarned = FALSE
    /\ ctx = "absent"
    /\ timerFired = FALSE
    /\ durationDone = FALSE
    /\ cancelCalls = {}
    /\ sigNotify = FALSE
    /\ sigCh = 0
    /\ interrupted = FALSE
    /\ collector = NoCollector
    /\ clientCreated = FALSE
    /\ rendererPc = "absent"
    /\ finalSnap = NoSnap
    /\ doneRendering = FALSE
    /\ watcherPc = "absent"
    /\ workerPc = [w \in WorkerIds |-> "absent"]
    /\ slotPc = [s \in SlotIds |-> "absent"]
    /\ slotRes = [s \in SlotIds |-> NoResult]
    /\ issued = 0
    /\ slotReq = [s \in SlotIds |-> NoRequest]
    /\ sentReq = [s \in SlotIds |-> NothingSent]
    /\ StatsIdle

\* orch := NewOrchestrator(cfg, renderer): o.cfg is the normalised copy
NewOrchestratorCall ==
    /\ runPc = "new"
    /\ cfg' = NewOrchestrator(cfg)
    /\ runPc' = "validate"
    /\ UNCHANGED <<statsVars, server, slotReq, sentReq,
                   runErr, dnsLookups, ulimitWarned, ctx, timerFired, durationDone,
                   cancelCalls, sigNotify, sigCh, interrupted, collector,
                   clientCreated, rendererPc, finalSnap, doneRendering,
                   watcherPc, workerPc, slotPc, slotRes, issued>>

NormalizeNext == NewOrchestratorCall

NormalizeSpec == NormalizeInit /\ [][NormalizeNext]_vars

(***************************************************************************)
(* Collector.Record, one atomic operation or critical section at a time.   *)
(***************************************************************************)
engineVars == <<cfg, runPc, runErr, dnsLookups, ulimitWarned, ctx, timerFired,
                durationDone, cancelCalls, sigNotify, sigCh, interrupted, collector,
                clientCreated, rendererPc, finalSnap, doneRendering,
                watcherPc, workerPc, slotPc, slotRes, issued, server, slotReq, sentReq>>

AllRecordsReturned == \A p \in Recorders : recPc[p] = "idle"

\* a goroutine calls Record(latency, success, bytesSent, bytesRecv):
\* atomic.AddUint64(&c.totalRequests, 1)
RecordAddRequests(p) ==
    /\ recPc[p] = "idle"
    /\ calls.n < MaxCalls
    /\ \E a \in SomeCalls :
          /\ recArgs' = [recArgs EXCEPT ![p] = a]
          /\ calls' = Called(calls, a)
    /\ col' = [col EXCEPT !.totalRequests = AtomicAdd(@, 1)]
    /\ recPc' = [recPc EXCEPT ![p] = "addSent"]
    /\ UNCHANGED <<engineVars, mu, now, snapPc, snapLoc, snap>>

\* a faulty Record that adds with a plain load and store: the store may be
\* based on any value the counter has had
RecordAddSent_NotAtomic(p) ==
    /\ recPc[p] = "addSent"
    /\ \E stale \in 0..col.totalBytesSent :
          col' = [col EXCEPT !.totalBytesSent = stale + recArgs[p].bytesSent]
    /\ recPc' = [recPc EXCEPT ![p] = "addRecv"]
    /\ UNCHANGED <<engineVars, mu, now, recArgs, calls, snapPc, snapLoc, snap>>

\* atomic.AddUint64(&c.totalBytesSent, bytesSent)
RecordAddSent(p) ==
    /\ recPc[p] = "addSent"
    /\ col' = [col EXCEPT !.totalBytesSent = AtomicAdd(@, recArgs[p].bytesSent)]
    /\ recPc' = [recPc EXCEPT ![p] = "addRecv"]
    /\ UNCHANGED <<engineVars, mu, now, recArgs, calls, snapPc, snapLoc, snap>>

\* atomic.AddUint64(&c.totalBytesRecv, bytesRecv)
RecordAddRecv(p) ==
    /\ recPc[p] = "addRecv"
    /\ col' = [col EXCEPT !.totalBytesRecv = AtomicAdd(@, recArgs[p].bytesRecv)]
    /\ recPc' = [recPc EXCEPT ![p] = "addOutcome"]
    /\ UNCHANGED <<engineVars, mu, now, recArgs, calls, snapPc, snapLoc, snap>>

\* if success { atomic.AddUint64(&c.successes, 1) } else { ...(&c.errors, 1) }
RecordAddOutcome(p) ==
    /\ recPc[p] = "addOutcome"
    /\ col' = IF recArgs[p].success
              THEN [col EXCEPT !.successes = AtomicAdd(@, 1)]
              ELSE [col EXCEPT !.errors = AtomicAdd(@, 1)]
    /\ recPc' = [recPc EXCEPT ![p] = "lock"]
    /\ UNCHANGED <<engineVars, mu, now, recArgs, calls, snapPc, snapLoc, snap>>

\* a faulty Record that appends without taking the mutex
RecordLock_NotTaken(p) ==
    /\ recPc[p] = "lock"
    /\ recPc' = [recPc EXCEPT ![p] = "append"]
    /\ UNCHANGED <<engineVars, col, mu, now, recArgs, calls, snapPc, snapLoc, snap>>

\* c.mu.Lock()
RecordLock(p) ==
    /\ recPc[p] = "lock"
    /\ mu = "free"
    /\ mu' = p
    /\ recPc' = [recPc EXCEPT ![p] = "append"]
    /\ UNCHANGED <<engineVars, col, now, recArgs, calls, snapPc, snapLoc, snap>>

\* a faulty Record that appends whatever the length of the buffer
RecordAppend_Unbounded(p) ==
    /\ recPc[p] = "append"
    /\ col' = [col EXCEPT !.latencySamples = Append(@, recArgs[p].latency)]
    /\ mu' = "free"
    /\ recArgs' = [recArgs EXCEPT ![p] = NoCall]
    /\ recPc' = [recPc EXCEPT ![p] = "idle"]
    /\ UNCHANGED <<engineVars, now, calls, snapPc, snapLoc, snap>>

\* if len(c.latencySamples) < maxLatencySamples { append }; the deferred
\* c.mu.Unlock(); return
RecordAppend(p) ==
    /\ recPc[p] = "append"
    /\ col' = [col EXCEPT !.latencySamples = AppendSample(@, recArgs[p].latency)]
    /\ mu' = "free"
    /\ recArgs' = [recArgs EXCEPT ![p] = NoCall]
    /\ recPc' = [recPc EXCEPT ![p] = "idle"]
    /\ UNCHANGED <<engineVars, now, calls, snapPc, snapLoc, snap>>

(***************************************************************************)
(* Collector.Snapshot, one atomic operation or critical section at a time. *)
(***************************************************************************)
\* a faulty Snapshot that reads the request counter with atomic.SwapUint64,
\* resetting it
SnapshotLoadRequests_Swaps(q) ==
    /\ snapPc[q] = "idle"
    /\ snapLoc' = [snapLoc EXCEPT ![q] =
                      [NoLocals EXCEPT !.elapsed = now - col.startTime,
                                       !.totalReqs = col.totalRequests,
                                       !.prev = Totals(snap[q]),
                                       !.afterAll = AllRecordsReturned /\ calls.n = MaxCalls]]
    /\ col' = [col EXCEPT !.totalRequests = 0]
    /\ snap' = [snap EXCEPT ![q] = ZeroSnapshot]
    /\ snapPc' = [snapPc EXCEPT ![q] = "loadSent"]
    /\ UNCHANGED <<engineVars, mu, now, recPc, recArgs, calls>>

\* elapsed := time.Since(c.startTime); totalReqs := atomic.LoadUint64(&c.totalRequests)
SnapshotLoadRequests(q) ==
    /\ snapPc[q] = "idle"
    /\ snapLoc' = [snapLoc EXCEPT ![q] =
                      [NoLocals EXCEPT !.elapsed = now - col.startTime,
                                       !.totalReqs = col.totalRequests,
                                       !.prev = Totals(snap[q]),
                                       !.afterAll = AllRecordsReturned /\ calls.n = MaxCalls]]
    /\ snap' = [snap EXCEPT ![q] = ZeroSnapshot]
    /\ snapPc' = [snapPc EXCEPT ![q] = "loadSent"]
    /\ UNCHANGED <<engineVars, col, mu, now, recPc, recArgs, calls>>

\* totalSent := atomic.LoadUint64(&c.totalBytesSent)
SnapshotLoadSent(q) ==
    /\ snapPc[q] = "loadSent"
    /\ snapLoc' = [snapLoc EXCEPT ![q].totalSent = col.totalBytesSent]
    /\ snapPc' = [snapPc EXCEPT ![q] = "loadRecv"]
    /\ UNCHANGED <<engineVars, col, mu, now, recPc, recArgs, calls, snap>>

\* totalRecv := atomic.LoadUint64(&c.totalBytesRecv)
SnapshotLoadRecv(q) ==
    /\ snapPc[q] = "loadRecv"
    /\ snapLoc' = [snapLoc EXCEPT ![q].totalRecv = col.totalBytesRecv]
    /\ snapPc' = [snapPc EXCEPT ![q] = "lock"]
    /\ UNCHANGED <<engineVars, col, mu, now, recPc, recArgs, calls, snap>>

\* c.mu.Lock()
SnapshotLock(q) ==
    /\ snapPc[q] = "lock"
    /\ mu = "free"
    /\ mu' = q
    /\ snapPc' = [snapPc EXCEPT ![q] = "flush"]
    /\ UNCHANGED <<engineVars, col, now, recPc, recArgs, calls, snapLoc, snap>>

\* a faulty Snapshot that unlocks by defer: the mutex is still held when the
\* copies are sorted
SnapshotFlushAndCopy_KeepsLock(q) ==
    /\ snapPc[q] = "flush"
    /\ col' = FlushBucket(col, snapLoc[q], now)
    /\ snapLoc' = [snapLoc EXCEPT ![q].latencySamples = col'.latencySamples,
                                  ![q].rpsBuckets = col'.rpsBuckets,
                                  ![q].bytesBuckets = col'.bytesPerSBuckets]
    /\ snapPc' = [snapPc EXCEPT ![q] = "loadSuccesses"]
    /\ UNCHANGED <<engineVars, mu, now, recPc, recArgs, calls, snap>>

\* now := time.Now(); the bucket flush; the three copies; c.mu.Unlock()
SnapshotFlushAndCopy(q) ==
    /\ snapPc[q] = "flush"
    /\ col' = FlushBucket(col, snapLoc[q], now)
    /\ snapLoc' = [snapLoc EXCEPT ![q].latencySamples = col'.latencySamples,
                                  ![q].rpsBuckets = col'.rpsBuckets,
                                  ![q].bytesBuckets = col'.bytesPerSBuckets]
    /\ mu' = "free"
    /\ snapPc' = [snapPc EXCEPT ![q] = "loadSuccesses"]
    /\ UNCHANGED <<engineVars, now, recPc, recArgs, calls, snap>>

\* Successes: atomic.LoadUint64(&c.successes)
SnapshotLoadSuccesses(q) ==
    /\ snapPc[q] = "loadSuccesses"
    /\ snapLoc' = [snapLoc EXCEPT ![q].successes = col.successes]
    /\ snapPc' = [snapPc EXCEPT ![q] = "loadErrors"]
    /\ UNCHANGED <<engineVars, col, mu, now, recPc, recArgs, calls, snap>>

\* Errors: atomic.LoadUint64(&c.errors)
SnapshotLoadErrors(q) ==
    /\ snapPc[q] = "loadErrors"
    /\ snapLoc' = [snapLoc EXCEPT ![q].errors = col.errors]
    /\ snapPc' = [snapPc EXCEPT ![q] = "sort"]
    /\ UNCHANGED <<engineVars, col, mu, now, recPc, recArgs, calls, snap>>

\* a faulty Snapshot whose latencySamples is c.latencySamples itself, not a
\* copy: the sort reorders the samples of the Collector
SnapshotReturn_SortsInPlace(q) ==
    /\ snapPc[q] = "sort"
    /\ snap' = [snap EXCEPT ![q] = BuildSnapshot(snapLoc[q])]
    /\ col' = [col EXCEPT !.latencySamples =
                   sortDurations(SubSeq(@, 1, Len(snapLoc[q].latencySamples)))
                   \o SubSeq(@, Len(snapLoc[q].latencySamples) + 1, Len(@))]
    /\ snapLoc' = [snapLoc EXCEPT ![q] = [NoLocals EXCEPT !.prev = snapLoc[q].prev,
                                                          !.afterAll = snapLoc[q].afterAll]]
    /\ snapPc' = [snapPc EXCEPT ![q] = "idle"]
    /\ UNCHANGED <<engineVars, mu, now, recPc, recArgs, calls>>

\* the copies are sorted, the percentiles and statistics taken; return snap
SnapshotReturn(q) ==
    /\ snapPc[q] = "sort"
    /\ snap' = [snap EXCEPT ![q] = BuildSnapshot(snapLoc[q])]
    /\ snapLoc' = [snapLoc EXCEPT ![q] = [NoLocals EXCEPT !.prev = snapLoc[q].prev,
                                                          !.afterAll = snapLoc[q].afterAll]]
    /\ snapPc' = [snapPc EXCEPT ![q] = "idle"]
    /\ UNCHANGED <<engineVars, col, mu, now, recPc, recArgs, calls>>

\* a second passes
Tick ==
    /\ now < MaxTicks
    /\ now' = now + 1
    /\ UNCHANGED <<engineVars, col, mu, recPc, recArgs, calls, snapPc, snapLoc, snap>>

(***************************************************************************)
(* A Collector of its own (no run is under way): goroutines call Record    *)
(* and Snapshot on it concurrently, within the second of its creation.     *)
(***************************************************************************)
NoRun ==
    /\ cfg = NewOrchestrator(BaseConfig)
    /\ server = "any"
    /\ RunNotStarted

CollectorInit == NoRun /\ StatsIdle

CollectorNext ==
    \/ \E p \in Recorders : RecordAddRequests(p)
    \/ \E p \in Recorders : RecordAddSent(p)
    \/ \E p \in Recorders : RecordAddRecv(p)
    \/ \E p \in Recorders : RecordAddOutcome(p)
    \/ \E p \in Recorders : RecordLock(p)
    \/ \E p \in Recorders : RecordAppend(p)
    \/ \E q \in Readers : SnapshotLoadRequests(q)
    \/ \E q \in Readers : SnapshotLoadSent(q)
    \/ \E q \in Readers : SnapshotLoadRecv(q)
    \/ \E q \in Readers : SnapshotLock(q)
    \/ \E q \in Readers : SnapshotFlushAndCopy(q)
    \/ \E q \in Readers : SnapshotLoadSuccesses(q)
    \/ \E q \in Readers : SnapshotLoadErrors(q)
    \/ \E q \in Readers : SnapshotReturn(q)

CollectorSpec == CollectorInit /\ [][CollectorNext]_vars

\* the steps of a Record call, and of a Snapshot call, that wait for nothing
RecordStep(p) ==
    \/ RecordAddSent(p)
    \/ RecordAddRecv(p)
    \/ RecordAddOutcome(p)
    \/ RecordAppend(p)

SnapshotStep(q) ==
    \/ SnapshotLoadSent(q)
    \/ SnapshotLoadRecv(q)
    \/ SnapshotFlushAndCopy(q)
    \/ SnapshotLoadSuccesses(q)
    \/ SnapshotLoadErrors(q)
    \/ SnapshotReturn(q)

(***************************************************************************)
(* A Collector over the seconds: one goroutine calls Record, one calls     *)
(* Snapshot, and the clock advances.                                       *)
(***************************************************************************)
TimedNext ==
    \/ Tick
    \/ RecordAddRequests("recorder1")
    \/ RecordAddSent("recorder1")
    \/ RecordAddRecv("recorder1")
    \/ RecordAddOutcome("recorder1")
    \/ RecordLock("recorder1")
    \/ RecordAppend("recorder1")
    \/ SnapshotLoadRequests("reader")
    \/ SnapshotLoadSent("reader")
    \/ SnapshotLoadRecv("reader")
    \/ SnapshotLock("reader")
    \/ SnapshotFlushAndCopy("reader")
    \/ SnapshotLoadSuccesses("reader")
    \/ SnapshotLoadErrors("reader")
    \/ SnapshotReturn("reader")

TimedSpec == CollectorInit /\ [][TimedNext]_vars

(***************************************************************************)
(* A Collector that has recorded failed requests: one goroutine makes one  *)
(* more Record call while two goroutines (the renderer's ticker and a      *)
(* reader of the final report) each take a Snapshot, and the clock         *)
(* advances.                                                               *)
(***************************************************************************)
ConcurrentReaders == {"reader", "finalReader"}

\* a failed request that sent a body (TestRecord_SuccessAndError)
ErrorCall == CHOOSE a \in SomeCalls : ~a.success

RECURSIVE CalledAll(_, _)
CalledAll(k, as) ==
    IF as = <<>> THEN k ELSE CalledAll(Called(k, Head(as)), Tail(as))

ConcurrentInit ==
    /\ NoRun
    /\ LET as == [i \in 1..(MaxCalls - 1) |-> ErrorCall]
       IN  /\ col = RecordAll(FreshCollector, as)
           /\ calls = CalledAll(NoCalls, as)
    /\ mu = "free"
    /\ now = 0
    /\ recPc = [p \in Recorders |-> "idle"]
    /\ recArgs = [p \in Recorders |-> NoCall]
    /\ snapPc = [q \in ConcurrentReaders |-> "idle"]
    /\ snapLoc = [q \in ConcurrentReaders |-> NoLocals]
    /\ snap = [q \in ConcurrentReaders |-> ZeroSnapshot]

\* q has not been returned a Snapshot yet
NothingReturned(q) == snap[q] = ZeroSnapshot

ConcurrentNext ==
    \/ Tick
    \/ RecordAddRequests("recorder1")
    \/ RecordAddSent("recorder1")
    \/ RecordAddRecv("recorder1")
    \/ RecordAddOutcome("recorder1")
    \/ RecordLock("recorder1")
    \/ RecordAppend("recorder1")
    \/ \E q \in ConcurrentReaders : NothingReturned(q) /\ SnapshotLoadRequests(q)
    \/ \E q \in ConcurrentReaders : SnapshotLoadSent(q)
    \/ \E q \in ConcurrentReaders : SnapshotLoadRecv(q)
    \/ \E q \in ConcurrentReaders : SnapshotLock(q)
    \/ \E q \in ConcurrentReaders : SnapshotFlushAndCopy(q)
    \/ \E q \in ConcurrentReaders : SnapshotLoadSuccesses(q)
    \/ \E q \in ConcurrentReaders : SnapshotLoadErrors(q)
    \/ \E q \in ConcurrentReaders : SnapshotReturn(q)

ConcurrentSpec == ConcurrentInit /\ [][ConcurrentNext]_vars

(***************************************************************************)
(* A Collector that has recorded any sequence of latencies, one call after *)
(* the other (TestSnapshot_LatencyPercentiles); a goroutine calls Snapshot.*)
(***************************************************************************)
StoredCalls == [latency : Latencies, success : {TRUE}, bytesSent : {0}, bytesRecv : {0}]

\* the Collector after n calls drawn from as, n in ns, and nobody calling it
Stored(ns, args) ==
    /\ \E n \in ns : \E as \in [1..n -> args] : col = RecordAll(FreshCollector, as)
    /\ mu = "free"
    /\ now = 0
    /\ recPc = [p \in Recorders |-> "idle"]
    /\ recArgs = [p \in Recorders |-> NoCall]
    /\ calls = NoCalls
    /\ snapPc = [q \in Readers |-> "idle"]
    /\ snapLoc = [q \in Readers |-> NoLocals]
    /\ snap = [q \in Readers |-> ZeroSnapshot]

StoredInit == NoRun /\ Stored(0..maxLatencySamples, StoredCalls)

StoredNext ==
    \/ \E q \in Readers : SnapshotLoadRequests(q)
    \/ \E q \in Readers : SnapshotLoadSent(q)
    \/ \E q \in Readers : SnapshotLoadRecv(q)
    \/ \E q \in Readers : SnapshotLock(q)
    \/ \E q \in Readers : SnapshotFlushAndCopy(q)
    \/ \E q \in Readers : SnapshotLoadSuccesses(q)
    \/ \E q \in Readers : SnapshotLoadErrors(q)
    \/ \E q \in Readers : SnapshotReturn(q)

StoredSpec == StoredInit /\ [][StoredNext]_vars

(***************************************************************************)
(* A Collector whose sample buffer is full, or one sample short of it;     *)
(* goroutines call Record concurrently.                                    *)
(***************************************************************************)
FullInit == NoRun /\ Stored((maxLatencySamples - 1)..maxLatencySamples, SomeCalls)

FullNext ==
    \/ \E p \in Recorders : RecordAddRequests(p)
    \/ \E p \in Recorders : RecordAddSent(p)
    \/ \E p \in Recorders : RecordAddRecv(p)
    \/ \E p \in Recorders : RecordAddOutcome(p)
    \/ \E p \in Recorders : RecordLock(p)
    \/ \E p \in Recorders : RecordAppend(p)

FullSpec == FullInit /\ [][FullNext]_vars

(***************************************************************************)
(* Fair scheduling: every goroutine that can take a step eventually takes  *)
(* one, every request in flight eventually returns, and a select with a    *)
(* ready ctx.Done() case eventually takes it (Go picks among ready cases   *)
(* at random).  Nothing is assumed of the timer or of the user.            *)
(***************************************************************************)
RunStep ==
    \/ RunValidateURL
    \/ RunPreflightDNS
    \/ RunCheckUlimit
    \/ RunSetup
    \/ RunSpawn
    \/ RunWait
    \/ RunCancel
    \/ RunReturn

WorkerStep(w) == WorkerStart(w) \/ WorkerJoin(w)

SlotStep(s) ==
    \/ SlotNewRequest(s)
    \/ SlotStop(s)
    \/ SlotIssue(s)
    \/ RequestComplete(s)
    \/ RequestAbort(s)
    \/ SlotRecord(s)

Fairness ==
    /\ WF_vars(RunStep)
    /\ WF_vars(Watcher)
    /\ WF_vars(RendererFinalSnapshot)
    /\ WF_vars(RendererRenderFinal)
    /\ \A w \in WorkerIds : WF_vars(WorkerStep(w))
    /\ \A s \in SlotIds : WF_vars(SlotStep(s))

FairSpec == Spec /\ Fairness

(***************************************************************************)
(* Vocabulary of the properties.                                           *)
(***************************************************************************)
PreflightPassed == cfg.URL # "" /\ PreflightDNS(cfg.URL).err = "nil"

AllSlotsStopped == \A s \in Slots : slotPc[s] = "stopped"

AllWorkersJoined == \A w \in Workers : workerPc[w] = "done"

WorkersRunning == \E w \in Workers : workerPc[w] \in {"start", "wait"}

FinalReportRendered == rendererPc = "done" /\ doneRendering

RunReturnedNil == runPc = "returned" /\ runErr = "nil"

\* nothing of a run exists: no lookup, signals, collector, client, goroutine or request
NothingStarted ==
    /\ ctx = "absent"
    /\ ~timerFired
    /\ ~sigNotify
    /\ collector = NoCollector
    /\ ~clientCreated
    /\ rendererPc = "absent"
    /\ watcherPc = "absent"
    /\ \A w \in WorkerIds : workerPc[w] = "absent"
    /\ \A s \in SlotIds : slotPc[s] = "absent"
    /\ issued = 0

(***************************************************************************)
(* C1: duration expiry never aborts a request in flight: a request is      *)
(* aborted by its context (and recorded as that error) only after a user   *)
(* interrupt made the watcher cancel, never with DeadlineExceeded.         *)
(***************************************************************************)
C1_DurationNeverAborts ==
    \A s \in SlotIds :
        slotRes[s].err \in ContextErrors =>
            slotRes[s].err = "Canceled" /\ "watcher" \in cancelCalls

(***************************************************************************)
(* C2: the context is ended only by cancel() called by the interrupt       *)
(* watcher or by the orchestrator after every worker has joined; the       *)
(* duration elapsing does not end it.                                      *)
(***************************************************************************)
C2_CancelOnlyByInterruptOrJoin ==
    ctxDone =>
        \/ "watcher" \in cancelCalls /\ interrupted
        \/ "orchestrator" \in cancelCalls /\ AllWorkersJoined

(***************************************************************************)
(* C3: once the renderer has taken the final-report Snapshot, no Record    *)
(* changes the Collector any more.                                         *)
(***************************************************************************)
C3_NoRecordAfterFinalSnapshot ==
    [][(rendererPc \in {"final", "done"}) => (collector' = collector)]_vars

(***************************************************************************)
(* C4: once preflight has passed, Run has returned only if RenderFinal has *)
(* completed (and doneRendering is closed).                                *)
(***************************************************************************)
C4_ReturnAfterFinalReport ==
    (PreflightPassed /\ runPc = "returned") => FinalReportRendered

C4_Witness ==
    PreflightPassed /\ runPc = "returned" /\ FinalReportRendered /\ collector.totalRequests > 0

(***************************************************************************)
(* C5: under fair scheduling, once the configured duration has elapsed     *)
(* every slot eventually stops, all workers join, the orchestrator calls   *)
(* cancel(), the final report is rendered and Run returns nil.             *)
(***************************************************************************)
C5_DrainAfterDuration ==
    timerFired ~>
        /\ AllSlotsStopped
        /\ AllWorkersJoined
        /\ "orchestrator" \in cancelCalls
        /\ FinalReportRendered
        /\ RunReturnedNil

C5_Witness ==
    /\ timerFired /\ ~interrupted
    /\ issued > 0
    /\ AllSlotsStopped /\ AllWorkersJoined
    /\ "orchestrator" \in cancelCalls
    /\ FinalReportRendered /\ RunReturnedNil

(***************************************************************************)
(* C6: a watcher that receives the interrupt calls cancel(), and after an  *)
(* interrupt that arrives while workers are running the context is ended,  *)
(* every slot eventually stops, the final report is rendered from the      *)
(* statistics collected so far and Run returns nil.                        *)
(***************************************************************************)
C6_InterruptShutsDown ==
    /\ [][(watcherPc = "select" /\ sigCh' < sigCh) =>
             (ctxDone' /\ "watcher" \in cancelCalls')]_vars
    /\ (interrupted /\ WorkersRunning) ~>
          /\ ctxDone
          /\ AllSlotsStopped
          /\ FinalReportRendered
          /\ finalSnap.TotalRequests <= collector.totalRequests
          /\ RunReturnedNil

C6_Witness ==
    /\ interrupted /\ ~timerFired
    /\ ctx = "Canceled" /\ "watcher" \in cancelCalls
    /\ collector.errors > 0
    /\ AllSlotsStopped /\ FinalReportRendered /\ RunReturnedNil

(***************************************************************************)
(* C7: Run with an empty URL returns "url is required" at once and nothing *)
(* of a run is ever created: no DNS lookup, signals, collector, client,    *)
(* worker, reporter or request.                                            *)
(***************************************************************************)
C7_EmptyURLRejected ==
    cfg.URL = "" =>
        /\ runPc \in {"validate", "returned"}
        /\ runPc = "returned" => runErr = "url is required"
        /\ dnsLookups = 0
        /\ NothingStarted

C7_Witness == cfg.URL = "" /\ runPc = "returned" /\ runErr = "url is required"

(***************************************************************************)
(* C8: when the DNS preflight fails, Run returns that error and nothing of *)
(* a run is created; the total-requests count stays 0.                     *)
(***************************************************************************)
C8_DNSFailureIsFatal ==
    (cfg.URL # "" /\ PreflightDNS(cfg.URL).err # "nil") =>
        /\ runPc \in {"validate", "dns", "returned"}
        /\ runPc = "returned" => runErr = PreflightDNS(cfg.URL).err
        /\ NothingStarted
        /\ collector.totalRequests = 0

C8_Witness ==
    /\ runPc = "returned"
    /\ runErr = "dns resolution failed"
    /\ dnsLookups = 1

(***************************************************************************)
(* C9: a resource-limit violation is only a warning: Run never returns it, *)
(* and a run that printed the warning has started its workers and, when it *)
(* returns, returns nil after all of them joined.                          *)
(***************************************************************************)
C9_UlimitIsWarningOnly ==
    /\ runErr \in {"none", "nil", "url is required", "invalid url",
                   "missing host in url", "dns resolution failed"}
    /\ ulimitWarned =>
          /\ PreflightPassed
          /\ runPc # "returned" \/ (RunReturnedNil /\ AllWorkersJoined /\ FinalReportRendered)

C9_Witness ==
    ulimitWarned /\ RunReturnedNil /\ AllWorkersJoined /\ collector.totalRequests > 0

(***************************************************************************)
(* C10: after preflight, request failures are only counted: Run returns    *)
(* nil whatever the outcomes were, every recorded request is in exactly    *)
(* one of the success/error counters, and a slot stops only on ctx.Done()  *)
(* or durationDone (or when it could not build its request), never because *)
(* a request failed.                                                       *)
(***************************************************************************)
C10_FailuresOnlyCounted ==
    /\ (PreflightPassed /\ runPc = "returned") => runErr = "nil"
    /\ collector.successes + collector.errors = collector.totalRequests
    /\ \A s \in SlotIds :
          slotPc[s] = "stopped" => (ctxDone \/ durationDone \/ NewRequestFails(cfg.Method))

C10_Witness ==
    /\ RunReturnedNil
    /\ collector.errors > 0
    /\ collector.successes > 0

(***************************************************************************)
(* C12: a completed request is recorded as a success if and only if there  *)
(* was no transport error, a response was received and its status code is  *)
(* in [200, 500); every other outcome is recorded as an error.             *)
(***************************************************************************)
C12_SuccessIffStatusIn200To499 ==
    [][\A s \in SlotIds :
          (slotPc[s] = "record" /\ slotPc'[s] # "record") =>
              IF slotRes[s].err = "nil" /\ slotRes[s].status # 0
                 /\ slotRes[s].status \in 200..499
              THEN /\ collector'.successes = collector.successes + 1
                   /\ collector'.errors = collector.errors
              ELSE /\ collector'.errors = collector.errors + 1
                   /\ collector'.successes = collector.successes]_vars

\* the slot has recorded its outcome, and it was a success
C12_Witness ==
    /\ slotPc[<<1, 1>>] = "iterate"
    /\ issued = 1
    /\ collector.totalRequests = 1
    /\ collector.successes = 1

(***************************************************************************)
(* C13: in a run nobody interrupts, against a target that answers every    *)
(* request with 404 no request is recorded as an error and the final       *)
(* snapshot shows Errors = 0; against one that answers every request with  *)
(* 500 no request is recorded as a success; and Run returns nil.           *)
(***************************************************************************)
C13_StatusDecidesEveryOutcome ==
    /\ server = "always404" => (collector.errors = 0 /\ finalSnap.Errors = 0)
    /\ server = "always500" => (collector.successes = 0 /\ finalSnap.Successes = 0)
    /\ runPc = "returned" => runErr = "nil"

(***************************************************************************)
(* C14: every request a slot issues is recorded exactly once: whenever no  *)
(* request is in flight and no Record is pending, TotalRequests equals the *)
(* number of requests all slots have issued.                               *)
(***************************************************************************)
C14_IssuedRecordedOnce ==
    (\A s \in Slots : slotPc[s] \notin {"inflight", "record"}) =>
        Snapshot(collector).TotalRequests = issued

\* all requests of the run are issued and recorded, successes and errors
C14_Witness ==
    /\ \A s \in Slots : slotPc[s] \notin {"inflight", "record"}
    /\ issued = MaxRequests
    /\ collector.successes > 0
    /\ collector.errors > 0

(***************************************************************************)
(* C15: with a non-empty body, every request a slot hands to client.Do is  *)
(* a new one whose reader is unread, so that the server observes the whole *)
(* body, with a content length of len(body), on every iteration; req, the  *)
(* request built before the loop, is never sent.                           *)
(***************************************************************************)
C15_WholeBodyEveryIteration ==
    \A s \in Slots :
        (Len(cfg.Body) > 0 /\ sentReq[s].sent) =>
            /\ sentReq[s].body = cfg.Body
            /\ sentReq[s].contentLength = Len(cfg.Body)
            /\ slotReq[s].off = 0

\* a slot is in its second iteration with a body
C15_Witness ==
    \E s \in Slots :
        /\ Len(cfg.Body) > 0
        /\ slotPc[s] = "inflight"
        /\ sentReq[s].body = SomeBody
        /\ collector.totalRequests > 0

(***************************************************************************)
(* C11: once all the Record calls issued concurrently have returned, a     *)
(* Snapshot reports TotalRequests = the number of calls, Successes and     *)
(* Errors = the number of calls with success true and false, and the byte  *)
(* totals = the sums of the arguments: no update is lost.                  *)
(***************************************************************************)
C11_NoUpdateLost ==
    \A q \in Readers :
        (snapPc[q] = "idle" /\ snapLoc[q].afterAll) => Totals(snap[q]) = calls

\* a Snapshot taken after MaxCalls calls, successes and errors, has returned
C11_Witness ==
    \E q \in Readers :
        /\ snapPc[q] = "idle"
        /\ snapLoc[q].afterAll
        /\ snap[q].TotalRequests = MaxCalls
        /\ calls.successes > 0
        /\ calls.errors > 0

(***************************************************************************)
(* C16: the latency percentiles of a Snapshot are nearest-rank selections  *)
(* from the stored samples in ascending order: percentile p is the sample  *)
(* of rank round(p/100 * (n-1)), Max is the largest sample, whatever the   *)
(* order of recording; {10,20,30,40,50} in any order give P50 = 30 and     *)
(* Max = 50.                                                               *)
(***************************************************************************)
\* v has rank k (from 0) among the samples s taken in ascending order
HasRank(s, v, k) ==
    /\ Cardinality({i \in 1..Len(s) : s[i] < v}) <= k
    /\ k < Cardinality({i \in 1..Len(s) : s[i] <= v})

\* the rank in 0..n-1 nearest to p/1000 * (n-1), the larger one of two
NearestRank(n, p) ==
    CHOOSE k \in 0..(n - 1) :
        \A j \in 0..(n - 1) :
            \/ Abs(1000 * k - p * (n - 1)) < Abs(1000 * j - p * (n - 1))
            \/ Abs(1000 * k - p * (n - 1)) = Abs(1000 * j - p * (n - 1)) /\ j <= k

C16_NearestRankPercentiles ==
    \A q \in Readers :
        LET s == col.latencySamples
            n == Len(s)
        IN  (snapPc[q] = "idle" /\ n > 0 /\ snap[q].TotalRequests = n) =>
                /\ HasRank(s, snap[q].LatencyP25, NearestRank(n, 25))
                /\ HasRank(s, snap[q].LatencyP50, NearestRank(n, 500))
                /\ HasRank(s, snap[q].LatencyP975, NearestRank(n, 975))
                /\ HasRank(s, snap[q].LatencyP99, NearestRank(n, 990))
                /\ \A i \in 1..n : s[i] <= snap[q].LatencyMax
                /\ \E i \in 1..n : s[i] = snap[q].LatencyMax
                /\ (n = 5 /\ {s[i] : i \in 1..n} = {10, 20, 30, 40, 50}) =>
                       (snap[q].LatencyP50 = 30 /\ snap[q].LatencyMax = 50)

\* a Snapshot of 50, 10, 40, 20, 30 recorded in this order has returned
C16_Witness ==
    \E q \in Readers :
        /\ snapPc[q] = "idle"
        /\ col.latencySamples = <<50, 10, 40, 20, 30>>
        /\ snap[q].TotalRequests = 5
        /\ snap[q].LatencyP50 = 30

(***************************************************************************)
(* C17: as long as no Record call has been made, every Snapshot returns    *)
(* with all totals, all latency statistics and all throughput statistics   *)
(* zero, however many are taken and however much time has passed.          *)
(***************************************************************************)
C17_EmptyCollectorAllZero ==
    calls.n = 0 =>
        \A q \in Readers : [snap[q] EXCEPT !.Duration = 0] = ZeroSnapshot

\* a Snapshot taken MaxTicks seconds after NewCollector, before any Record
C17_Witness ==
    \E q \in Readers :
        /\ calls.n = 0
        /\ snapPc[q] = "idle"
        /\ snap[q].Duration = MaxTicks

(***************************************************************************)
(* C18: the counters of the Collector never decrease, and of two Snapshots *)
(* taken one after the other the later shows totals >= the earlier's.      *)
(***************************************************************************)
AtLeast(a, b) ==
    /\ a.n >= b.n
    /\ a.successes >= b.successes
    /\ a.errors >= b.errors
    /\ a.bytesSent >= b.bytesSent
    /\ a.bytesRecv >= b.bytesRecv

Counters(c) ==
    [n |-> c.totalRequests, successes |-> c.successes, errors |-> c.errors,
     bytesSent |-> c.totalBytesSent, bytesRecv |-> c.totalBytesRecv]

C18_CountersNeverDecrease ==
    /\ [](\A q \in Readers : snapPc[q] = "idle" => AtLeast(Totals(snap[q]), snapLoc[q].prev))
    /\ [][AtLeast(Counters(col'), Counters(col))]_vars

\* the second of two Snapshots shows more requests than the first
C18_Witness ==
    \E q \in Readers :
        /\ snapPc[q] = "idle"
        /\ snapLoc[q].prev.n > 0
        /\ snap[q].TotalRequests > snapLoc[q].prev.n

(***************************************************************************)
(* C19: the latency sample buffer never holds more than maxLatencySamples  *)
(* samples; once it is full a Record call leaves it unchanged (the samples *)
(* stored first are kept, the new one is dropped) and still increments the *)
(* counters.                                                               *)
(***************************************************************************)
C19_SampleBufferBounded ==
    /\ [](Len(col.latencySamples) <= maxLatencySamples)
    /\ [][Len(col.latencySamples) = maxLatencySamples =>
              /\ col'.latencySamples = col.latencySamples
              /\ \A p \in Recorders :
                    (recPc[p] = "idle" /\ recPc'[p] # "idle") =>
                        col'.totalRequests = col.totalRequests + 1
              /\ \A p \in Recorders :
                    (recPc[p] = "addOutcome" /\ recPc'[p] # "addOutcome") =>
                        col'.successes + col'.errors = col.successes + col.errors + 1]_vars

\* every call has returned, more calls than the buffer holds samples
C19_Witness ==
    /\ AllRecordsReturned
    /\ calls.n > 0
    /\ Len(col.latencySamples) = maxLatencySamples
    /\ col.successes + col.errors > maxLatencySamples

Front(s) == SubSeq(s, 1, Len(s) - 1)

\* series t is series s, or s with one bucket appended and at most the
\* oldest one evicted
Flushed(s, t) ==
    \/ t = s
    \/ Len(t) > 0 /\ Front(t) = s
    \/ Len(t) > 0 /\ Len(s) > 0 /\ Front(t) = Tail(s)

Sorting(q) == snapPc[q] \in {"loadSuccesses", "loadErrors", "sort"}

C22_NoLockWhileSorting ==
    /\ \A q \in Readers :
          /\ mu = q <=> snapPc[q] = "flush"
          /\ Sorting(q) => mu \in {"free"} \cup {p \in Recorders : recPc[p] = "append"}
    /\ \A p \in Recorders :
          /\ mu = p <=> recPc[p] = "append"
          /\ (recPc[p] = "lock" /\ mu = "free") => ENABLED RecordLock(p)

\* while a Snapshot call sorts its copies a Record call holds the mutex and
\* another Record call waits for it
C22_Witness ==
    \E q \in Readers : \E p1, p2 \in Recorders :
        /\ snapPc[q] = "sort"
        /\ snapLoc[q].totalReqs > 0
        /\ mu = p1
        /\ recPc[p2] = "lock"

(***************************************************************************)
(* C23: cancel() may be called more than once, by the watcher, by Run      *)
(* after the workers joined and by Run's defer: a call on a context that   *)
(* has not ended ends it, a call on an ended context changes nothing (the  *)
(* context keeps its error), and a watcher that finds the context ended    *)
(* exits and changes nothing else.                                         *)
(***************************************************************************)
C23_CancelIsIdempotent ==
    [][/\ cancelCalls \subseteq cancelCalls'
       /\ (cancelCalls' # cancelCalls /\ ctx = "active") => ctx' = "Canceled"
       /\ ctxDone => ctx' = ctx
       /\ (watcherPc = "select" /\ watcherPc' = "done" /\ sigCh' = sigCh) =>
             /\ ctxDone
             /\ UNCHANGED <<ctx, cancelCalls, runPc, runErr, collector, rendererPc,
                            finalSnap, doneRendering, workerPc, slotPc, slotRes, issued>>]_vars

\* the watcher, Run after the join and Run's defer have all called cancel()
C23_Witness ==
    /\ cancelCalls = {"watcher", "orchestrator", "defer"}
    /\ ctx = "Canceled"
    /\ watcherPc = "done"
    /\ RunReturnedNil

(***************************************************************************)
(* C24: the signals of a run are one-shot: once ctx.Done() is closed it    *)
(* stays closed and ctx.Err() stays what it is, once durationDone is       *)
(* closed it stays closed, the timer of the duration fires at most once,   *)
(* and every later check observes the signal: a slot at its select stops   *)
(* and issues nothing, the renderer's final case stays ready until taken.  *)
(***************************************************************************)
C24_SignalsAreOneShot ==
    /\ [][/\ ctxDone => ctx' = ctx
          /\ durationDone => durationDone'
          /\ timerFired => (timerFired' /\ ctx' = ctx)
          /\ \A s \in SlotIds :
                ((ctxDone \/ durationDone) /\ slotPc[s] = "iterate" /\ slotPc'[s] # "iterate") =>
                    (slotPc'[s] = "stopped" /\ issued' = issued)]_vars
    /\ []((ctxDone /\ rendererPc = "loop") => ENABLED RendererFinalSnapshot)

\* the deadline ended the context, a slot that had recorded a request saw it
\* and stopped, the renderer saw it, and all the later cancel() calls changed nothing
C24_Witness ==
    /\ ctx = "DeadlineExceeded"
    /\ timerFired
    /\ cancelCalls = {"orchestrator", "defer"}
    /\ collector.successes > 0
    /\ AllSlotsStopped
    /\ rendererPc = "done"

(***************************************************************************)
(* C25: a worker that has started has exactly pipeline slots (1 when       *)
(* cfg.Pipeline <= 0) and has returned only if all of them have stopped;   *)
(* Run starts exactly cfg.Workers workers and goes on only when all have   *)
(* returned; so a run has Workers x Pipeline slots, and a slot is started  *)
(* only by its worker's start, a worker only by Run's spawn loop.          *)
(***************************************************************************)
\* the slots the goroutine of worker w has started
StartedSlots(w) == {s \in SlotIds : s[1] = w /\ slotPc[s] # "absent"}

StartedWorkers == {w \in WorkerIds : workerPc[w] # "absent"}

C25_ExactFanOut ==
    /\ [](/\ \A w \in WorkerIds :
                /\ workerPc[w] \in {"absent", "start"} => StartedSlots(w) = {}
                /\ workerPc[w] \in {"wait", "done"} =>
                      Cardinality(StartedSlots(w)) = IF cfg.Pipeline <= 0 THEN 1 ELSE cfg.Pipeline
                /\ workerPc[w] = "done" => \A s \in StartedSlots(w) : slotPc[s] = "stopped"
          /\ runPc \in {"validate", "dns", "ulimit", "setup", "spawn"} => StartedWorkers = {}
          /\ (runPc \in {"wait", "cancel", "rendezvous"} \/ RunReturnedNil) =>
                Cardinality(StartedWorkers) = cfg.Workers
          /\ (runPc \in {"cancel", "rendezvous"} \/ RunReturnedNil) =>
                /\ \A w \in StartedWorkers : workerPc[w] = "done"
                /\ Cardinality(UNION {StartedSlots(w) : w \in WorkerIds})
                      = cfg.Workers * cfg.Pipeline)
    /\ [][/\ \A s \in SlotIds :
                (slotPc[s] = "absent" /\ slotPc'[s] # "absent") => workerPc[s[1]] = "start"
          /\ \A w \in WorkerIds :
                (workerPc[w] = "absent" /\ workerPc'[w] # "absent") => runPc = "spawn"]_vars

\* a run of one worker with a pipeline of MaxSlots has returned, every slot
\* having recorded a request
C25_Witness ==
    /\ cfg.Workers = 1
    /\ cfg.Pipeline = MaxSlots
    /\ Cardinality(StartedSlots(1)) = MaxSlots
    /\ workerPc[1] = "done"
    /\ collector.totalRequests >= MaxSlots
    /\ RunReturnedNil

(***************************************************************************)
(* C26: NewOrchestrator normalises every Config: Workers <= 0 becomes the  *)
(* CPU count, Connections <= 0 becomes Workers x 10 of the normalised      *)
(* Workers, Pipeline <= 0 becomes 1, Duration <= 0 becomes 10 s, an empty  *)
(* Method becomes GET; positive and non-empty values, the URL and the      *)
(* body pass unchanged; every count of the stored configuration is >= 1.   *)
(***************************************************************************)
C26_ConfigNormalized ==
    [][runPc = "new" =>
          /\ cfg'.Workers = IF cfg.Workers > 0 THEN cfg.Workers ELSE NumCPU
          /\ cfg'.Connections = IF cfg.Connections > 0 THEN cfg.Connections
                                ELSE cfg'.Workers * 10
          /\ cfg'.Pipeline = IF cfg.Pipeline > 0 THEN cfg.Pipeline ELSE 1
          /\ cfg'.Duration = IF cfg.Duration > 0 THEN cfg.Duration ELSE 10
          /\ cfg'.Method = IF cfg.Method # "" THEN cfg.Method ELSE "GET"
          /\ cfg'.URL = cfg.URL
          /\ cfg'.Body = cfg.Body
          /\ cfg'.Workers >= 1 /\ cfg'.Connections >= 1
          /\ cfg'.Pipeline >= 1 /\ cfg'.Duration >= 1]_vars

\* the Orchestrator of a Config whose counts and method were all left unset
C26_Witness ==
    /\ runPc = "validate"
    /\ cfg.Workers = NumCPU
    /\ cfg.Connections = NumCPU * ConnsPerWorker
    /\ cfg.Pipeline = 1
    /\ cfg.Duration = DefaultDuration
    /\ cfg.Method = "GET"

(***************************************************************************)
(* C27: the client newHTTPClient builds has Timeout = 0 whatever the       *)
(* connection count, and no request of a run is ended by a deadline of the *)
(* client: a client.Do returns a response, a transport error, or the error *)
(* of the request's context.                                               *)
(***************************************************************************)
C27_NoClientTimeout ==
    /\ \A n \in 0..(NumCPU * ConnsPerWorker) : newHTTPClient(n).Timeout = 0
    /\ clientCreated => ClientDeadline(newHTTPClient(cfg.Connections)) = {}
    /\ \A s \in SlotIds :
          /\ slotRes[s].err # ClientTimeoutError
          /\ slotRes[s].err \in {"none", "nil"} \cup TransportErrors \cup ContextErrors

\* of the requests of a run whose client has the default connection count,
\* one has returned a response and one was ended by cancel()
C27_Witness ==
    /\ clientCreated
    /\ cfg.Connections = cfg.Workers * ConnsPerWorker
    /\ collector.successes > 0
    /\ \E s \in Slots : slotPc[s] = "record" /\ slotRes[s].err = "Canceled"

(***************************************************************************)
(* C28: a select that finds ctx.Done() or durationDone ready ends the slot *)
(* and neither builds nor issues a request; once a signal is triggered no  *)
(* select takes its default case any more, so that the only requests       *)
(* issued after the trigger are those of the slots whose select had taken  *)
(* the default case before it: at most one request per slot.               *)
(***************************************************************************)
Triggered == ctxDone \/ durationDone

C28_StopCheckWithholdsRequest ==
    [][\A s \in SlotIds :
          /\ (Triggered /\ slotPc[s] = "iterate" /\ slotPc'[s] # "iterate") =>
                /\ slotPc'[s] = "stopped"
                /\ issued' = issued
                /\ slotReq'[s] = slotReq[s]
                /\ sentReq'[s] = sentReq[s]
          /\ (Triggered /\ slotPc'[s] = "default") => slotPc[s] = "default"
          /\ (Triggered /\ slotPc[s] # "inflight" /\ slotPc'[s] = "inflight") =>
                slotPc[s] = "default"]_vars

\* the duration has expired: one slot has found it so at its select and has
\* stopped, another had taken the default case before and has a request to issue
C28_Witness ==
    \E s1, s2 \in Slots :
        /\ timerFired
        /\ ctx = "DeadlineExceeded"
        /\ slotPc[s1] = "stopped"
        /\ slotPc[s2] = "default"
        /\ collector.totalRequests > 0

(***************************************************************************)
(* C29: a slot stops only at its select, on ctx.Done() or durationDone:    *)
(* as long as neither signal is triggered no slot has stopped, whatever    *)
(* happened to its requests or to the construction of its request, and no  *)
(* worker has finished.                                                    *)
(***************************************************************************)
C29_OnlySignalsStopSlots ==
    /\ \A s \in SlotIds : slotPc[s] = "stopped" => (ctxDone \/ durationDone)
    /\ \A w \in WorkerIds : workerPc[w] = "done" => (ctxDone \/ durationDone)

(***************************************************************************)
(* C30: a request that cancel() aborted in flight is handled like any      *)
(* failed request: client.Do's return is followed by the Record call, the  *)
(* Record call counts one request and one error, and the slot then stops   *)
(* at its select without issuing a request; against a target that answers  *)
(* every request with 404 the errors are the aborted requests, at most one *)
(* per slot, and every issued request is counted once.                     *)
(***************************************************************************)
C30_AbortRecordedOnceAsError ==
    /\ [][\A s \in SlotIds :
              /\ (slotPc[s] = "inflight" /\ slotPc'[s] # "inflight") =>
                    (slotPc'[s] = "record" /\ slotRes'[s] # NoResult)
              /\ (slotPc[s] = "record" /\ slotRes[s].err \in ContextErrors
                                      /\ slotPc'[s] # "record") =>
                    /\ collector'.totalRequests = collector.totalRequests + 1
                    /\ collector'.errors = collector.errors + 1
                    /\ collector'.successes = collector.successes
                    /\ slotPc'[s] = "iterate"
                    /\ ctxDone
              /\ (ctxDone /\ slotPc[s] = "iterate" /\ slotPc'[s] # "iterate") =>
                    /\ slotPc'[s] = "stopped"
                    /\ issued' = issued
                    /\ collector' = collector]_vars
    /\ [](server = "always404" =>
             /\ collector.errors > 0 => ctxDone
             /\ collector.errors <= Cardinality(Slots)
             /\ (\A s \in Slots : slotPc[s] \notin {"inflight", "record"}) =>
                   collector.totalRequests = issued)

\* the user interrupted a run against a target that answers 404 while a
\* request was in flight: it is the one error, and every slot has stopped
C30_Witness ==
    /\ server = "always404"
    /\ ctx = "Canceled"
    /\ "watcher" \in cancelCalls
    /\ ~timerFired
    /\ collector.errors = 1
    /\ collector.successes > 0
    /\ collector.totalRequests = issued
    /\ AllSlotsStopped

(***************************************************************************)
(* C31: every Snapshot a caller is returned has Successes + Errors =       *)
(* TotalRequests, also when Record calls of other goroutines are under way *)
(* while it is taken.                                                      *)
(***************************************************************************)
C31_SnapshotTotalsConsistent ==
    \A q \in Readers :
        snapPc[q] = "idle" => snap[q].Successes + snap[q].Errors = snap[q].TotalRequests

(***************************************************************************)
(* C32: the critical section of a Snapshot call flushes a bucket only if   *)
(* at least a second has passed since the last flush and the total it      *)
(* loaded exceeds the last-flush request marker; it then appends one       *)
(* bucket to each series (evicting at most the oldest), the requests/sec   *)
(* bucket not zero, and sets the last-flush time and markers to the time   *)
(* and the totals it loaded. Otherwise, and in every other step, the two   *)
(* series, the last-flush time and the markers stay as they are.           *)
(***************************************************************************)
\* the last-flush time and markers of the Collector
Markers(c) == <<c.lastBucketTime, c.lastBucketReqs, c.lastBucketSent, c.lastBucketRecv>>

\* series t is series s with one bucket appended, the oldest one evicted or not
OneAppended(s, t) ==
    /\ Len(t) > 0
    /\ \/ Front(t) = s
       \/ Len(s) > 0 /\ Front(t) = Tail(s)

\* this step is the critical section of the Snapshot call of q
InCriticalSection(q) == snapPc[q] = "flush" /\ snapPc'[q] # "flush"

C32_FlushOnlyWithNewRequests ==
    [][/\ \A q \in DOMAIN snapPc :
             InCriticalSection(q) =>
                 IF /\ now - col.lastBucketTime >= Second
                    /\ snapLoc[q].totalReqs > col.lastBucketReqs
                 THEN /\ OneAppended(col.rpsBuckets, col'.rpsBuckets)
                      /\ OneAppended(col.bytesPerSBuckets, col'.bytesPerSBuckets)
                      /\ col'.rpsBuckets[Len(col'.rpsBuckets)].num > 0
                      /\ Markers(col') = <<now, snapLoc[q].totalReqs,
                                           snapLoc[q].totalSent, snapLoc[q].totalRecv>>
                 ELSE /\ col'.rpsBuckets = col.rpsBuckets
                      /\ col'.bytesPerSBuckets = col.bytesPerSBuckets
                      /\ Markers(col') = Markers(col)
       /\ (\A q \in DOMAIN snapPc : ~InCriticalSection(q)) =>
             /\ col'.rpsBuckets = col.rpsBuckets
             /\ col'.bytesPerSBuckets = col.bytesPerSBuckets
             /\ Markers(col') = Markers(col)]_vars

\* a Snapshot flushed one request at second 1; the Snapshot of the other
\* caller, a second later with no new request, has returned and flushed nothing
C32_Witness ==
    \E q \in DOMAIN snapPc :
        /\ snapPc[q] = "idle"
        /\ snap[q].Duration = 2 * Second
        /\ snap[q].TotalRequests = 1
        /\ col.totalRequests = 1
        /\ Markers(col) = <<1, 1, col.totalBytesSent, col.totalBytesRecv>>
        /\ Len(col.rpsBuckets) = 1

(***************************************************************************)
(* C33: whatever the interleaving of the Snapshot and Record calls, a      *)
(* Snapshot call that is about to flush a bucket has loaded byte totals    *)
(* that are not smaller than the last-flush markers it subtracts from      *)
(* them, so that no delta wraps around.                                    *)
(***************************************************************************)
C33_DeltasNeverWrap ==
    \A q \in DOMAIN snapPc :
        (/\ snapPc[q] = "flush"
         /\ now - col.lastBucketTime >= Second
         /\ snapLoc[q].totalReqs > col.lastBucketReqs)
        => /\ snapLoc[q].totalSent >= col.lastBucketSent
           /\ snapLoc[q].totalRecv >= col.lastBucketRecv

(***************************************************************************)
(* C34: the last-flush request marker never exceeds the total-requests     *)
(* counter, and it starts at zero and changes only in a flush, which       *)
(* raises it by the requests its bucket counts: the request deltas of the  *)
(* buckets flushed so far sum to the marker and no request is counted in   *)
(* two buckets, also with two Snapshot calls under way at a time.          *)
(***************************************************************************)
C34_RequestsCountedOnce ==
    /\ [](col.lastBucketReqs <= col.totalRequests)
    /\ [][LET flushed == \/ col'.rpsBuckets # col.rpsBuckets
                         \/ col'.lastBucketTime # col.lastBucketTime
              delta   == col'.lastBucketReqs - col.lastBucketReqs
          IN  IF flushed
              THEN /\ delta > 0
                   /\ col'.lastBucketTime > col.lastBucketTime
                   /\ Len(col'.rpsBuckets) > 0
                   /\ col'.rpsBuckets[Len(col'.rpsBuckets)]
                        = Ratio(delta * Second, col'.lastBucketTime - col.lastBucketTime)
              ELSE delta = 0]_vars

\* both callers loaded their totals in second 1, around a Record call; the
\* renderer's Snapshot flushed the requests before it at once, the other
\* one the request of that call a second later
C34_Witness ==
    /\ "finalReader" \in DOMAIN snapPc
    /\ \A q \in DOMAIN snapPc : snapPc[q] = "idle" /\ snap[q].Duration = Second
    /\ snap["reader"].TotalRequests = MaxCalls - 1
    /\ snap["finalReader"].TotalRequests = MaxCalls
    /\ col.lastBucketReqs = MaxCalls
    /\ col.lastBucketTime = 2 * Second

(***************************************************************************)
(* C35: no step of a Snapshot call changes a counter, the start time or    *)
(* the latency samples of the Collector: all it may change are the two     *)
(* bucket series and the last-flush time and markers; the counters and the *)
(* samples are changed by steps of Record calls only.                      *)
(***************************************************************************)
\* the Collector c with the bucket state of the Collector d
WithBucketsOf(c, d) ==
    [c EXCEPT !.rpsBuckets = d.rpsBuckets,
              !.bytesPerSBuckets = d.bytesPerSBuckets,
              !.lastBucketTime = d.lastBucketTime,
              !.lastBucketReqs = d.lastBucketReqs,
              !.lastBucketSent = d.lastBucketSent,
              !.lastBucketRecv = d.lastBucketRecv]

C35_SnapshotWritesOnlyBuckets ==
    [][/\ \A q \in DOMAIN snapPc :
             snapPc'[q] # snapPc[q] =>
                 /\ WithBucketsOf(col', col) = col
                 /\ \A p \in Recorders : recPc'[p] = recPc[p] /\ recArgs'[p] = recArgs[p]
       /\ WithBucketsOf(col', col) # col =>
             \E p \in Recorders : recPc'[p] # recPc[p]]_vars

\* a Snapshot of two recorded requests has flushed a bucket and returned:
\* the counters and the samples are those the two Record calls left
C35_Witness ==
    \E q \in DOMAIN snapPc :
        /\ snapPc[q] = "idle"
        /\ snap[q].TotalRequests = 2
        /\ col.lastBucketReqs = 2
        /\ Len(col.rpsBuckets) = 1
        /\ Counters(col) = calls
        /\ Len(col.latencySamples) = 2

(***************************************************************************)
(* C36: a Record or Snapshot call under way can always take its next step, *)
(* or it waits for the mutex while the call holding it can take the step   *)
(* that releases it; every step of a call is the next one of a fixed       *)
(* finite sequence that ends with its return, and the statistics of a      *)
(* Snapshot are defined whatever its copies hold. A call takes the mutex   *)
(* in one step of that sequence only, holds it until its next step, which  *)
(* releases it, and at no other time; the latency samples, the bucket      *)
(* state and a Snapshot call's copies of them change only in a step of the *)
(* one call holding the mutex.                                             *)
(***************************************************************************)
\* the call that holds the mutex ends its critical section in this step
Releases(r) == mu = r /\ mu' = "free"

\* the call holding the mutex can take the step that releases it
HolderCanRelease ==
    \/ \E p \in Recorders : mu = p /\ ENABLED RecordAppend(p)
    \/ \E q \in Readers : mu = q /\ ENABLED SnapshotFlushAndCopy(q)

\* sn has a value for every field of the Snapshot struct
IsSnapshot(sn) == DOMAIN sn = DOMAIN ZeroSnapshot

\* the positions of a Record call and of a Snapshot call, in order
RecordOrder == <<"idle", "addSent", "addRecv", "addOutcome", "lock", "append">>
SnapshotOrder ==
    <<"idle", "loadSent", "loadRecv", "lock", "flush", "loadSuccesses", "loadErrors", "sort">>

\* b is the position after a in the order
NextIn(order, a, b) ==
    \E i \in 1..Len(order) : order[i] = a /\ order[(i % Len(order)) + 1] = b

C36_CallsReturnAndExclude ==
    /\ [](/\ mu \in {"free"} \cup Recorders \cup Readers
          /\ \A p \in Recorders :
                /\ recPc[p] = "append" <=> mu = p
                /\ recPc[p] \notin {"idle", "lock"} => ENABLED RecordStep(p)
                /\ recPc[p] = "lock" => (ENABLED RecordLock(p) \/ HolderCanRelease)
          /\ \A q \in Readers :
                /\ snapPc[q] = "flush" <=> mu = q
                /\ snapPc[q] \notin {"idle", "lock", "sort"} => ENABLED SnapshotStep(q)
                /\ snapPc[q] = "sort" => IsSnapshot(BuildSnapshot(snapLoc[q]))
                /\ snapPc[q] = "lock" => (ENABLED SnapshotLock(q) \/ HolderCanRelease))
    /\ [][/\ \A p \in Recorders :
                /\ recPc'[p] # recPc[p] => NextIn(RecordOrder, recPc[p], recPc'[p])
                /\ (mu' = p /\ mu # p) => (mu = "free" /\ recPc[p] = "lock")
                /\ (mu = p /\ recPc'[p] # recPc[p]) => (mu' = "free" /\ recPc'[p] = "idle")
                /\ (mu = p /\ recPc'[p] = recPc[p]) => mu' = p
          /\ \A q \in Readers :
                /\ snapPc'[q] # snapPc[q] => NextIn(SnapshotOrder, snapPc[q], snapPc'[q])
                /\ (mu' = q /\ mu # q) => (mu = "free" /\ snapPc[q] = "lock")
                /\ (mu = q /\ snapPc'[q] # snapPc[q]) => mu' = "free"
                /\ (mu = q /\ snapPc'[q] = snapPc[q]) => mu' = q
                /\ <<snapLoc'[q].latencySamples, snapLoc'[q].rpsBuckets,
                      snapLoc'[q].bytesBuckets>>
                     # <<snapLoc[q].latencySamples, snapLoc[q].rpsBuckets,
                         snapLoc[q].bytesBuckets>>
                   => (Releases(q) \/ snapPc'[q] = "idle")
          /\ col'.latencySamples # col.latencySamples
                => \E p \in Recorders : Releases(p)
          /\ <<col'.rpsBuckets, col'.bytesPerSBuckets, Markers(col')>>
                # <<col.rpsBuckets, col.bytesPerSBuckets, Markers(col)>>
                => \E q \in Readers : Releases(q)]_vars

\* a Record call holds the mutex while the other Record call and a Snapshot
\* call, which has loaded the requests of both, wait for it
C36_Witness ==
    \E p1, p2 \in Recorders : \E q \in Readers :
        /\ mu = p1
        /\ recPc[p2] = "lock"
        /\ snapPc[q] = "lock"
        /\ snapLoc[q].totalReqs = 2

(***************************************************************************)
(* C37: the body of a response is open only between the return of          *)
(* client.Do and the slot's Record call: the step that records the request *)
(* leaves it drained and closed, whether the request counts as a success   *)
(* or as an error, so that no body is open when a slot takes its stop      *)
(* check, has a request in flight or has stopped.                          *)
(***************************************************************************)
C37_BodiesDrainedAndClosed ==
    /\ [](\A s \in SlotIds : slotRes[s].body = "open" => slotPc[s] = "record")
    /\ [][\A s \in SlotIds :
             (slotPc[s] = "record" /\ slotPc'[s] # "record") =>
                 /\ slotRes'[s].body = "none"
                 /\ DrainAndClose(slotRes[s]).body # "open"
                 /\ collector'.totalRequests = collector.totalRequests + 1]_vars

\* two answers with status 500 have been recorded as errors, the context
\* has not ended, and no body is open
C37_Witness ==
    /\ server = "always500"
    /\ ctx = "active"
    /\ collector.errors = 2
    /\ \A s \in SlotIds : slotRes[s].body = "none"
    /\ \E s \in Slots : slotPc[s] = "iterate"

(***************************************************************************)
(* C39: every Record call of a slot adds len(cfg.Body) to the bytes sent,  *)
(* whether the request succeeded, failed or was aborted: the Collector's   *)
(* bytes sent are its total requests times len(cfg.Body), and so are those *)
(* of the final Snapshot.                                                  *)
(***************************************************************************)
C39_BytesSentPerRecord ==
    /\ [](/\ collector.totalBytesSent = collector.totalRequests * Len(cfg.Body)
          /\ finalSnap.TotalBytesSent = finalSnap.TotalRequests * Len(cfg.Body))
    /\ [][collector'.totalRequests # collector.totalRequests =>
             /\ collector'.totalRequests = collector.totalRequests + 1
             /\ collector'.totalBytesSent = collector.totalBytesSent + Len(cfg.Body)]_vars

\* a success and an error have been recorded, the error after the context
\* ended, in a run that sends a body
C39_Witness ==
    /\ Len(cfg.Body) > 0
    /\ collector.successes = 1
    /\ collector.errors = 1
    /\ ctxDone
    /\ finalSnap.TotalBytesSent = Len(cfg.Body)
    /\ collector.totalBytesSent = 2 * Len(cfg.Body)

(***************************************************************************)
(* C38: the final report is produced once and only in response to the      *)
(* cancellation signal: the renderer takes the final Snapshot only after   *)
(* cancel() has been called (by the watcher on an interrupt, or by Run     *)
(* once the workers have joined), it renders live views only before that,  *)
(* and it does nothing once the final report has been rendered.            *)
(***************************************************************************)
C38_FinalReportOnCancellation ==
    /\ [](rendererPc \in {"final", "done"} => cancelCalls # {})
    /\ [](rendererPc \in {"final", "done"} => ~ENABLED RendererTick)
    /\ [][/\ rendererPc = "done" => rendererPc' = "done"
          /\ (rendererPc' = "final" /\ rendererPc # "final") => rendererPc = "loop"
          /\ doneRendering' # doneRendering
                => (rendererPc = "final" /\ rendererPc' = "done" /\ doneRendering')]_vars
====
